---- MODULE Spec2Model ----
(***************************************************************************)
(* Alert matcher of the M&A market-intelligence tool                      *)
(* (src/deal_sourcing_alerts.py): the alerts and deals tables, the alert  *)
(* query that test_alert builds by string interpolation, its evaluation   *)
(* by the SQL engine, and the run_all_alerts batch with its bookkeeping.  *)
(*                                                                         *)
(* Text is a sequence of symbols.  A symbol is a one-character string, or *)
(* a whole word of the query language ("OR", "LIKE", "target_name", ...)  *)
(* standing for that word surrounded by blanks.  Text typed by the user   *)
(* and text of the query template are made of the same symbols, which is  *)
(* what interpolating without escaping means.                              *)
(***************************************************************************)
EXTENDS Integers, Sequences, FiniteSets, TLC

(***************************************************************************)
(* Optional values: Python None / SQL NULL is the empty set, a present    *)
(* value v is {v}.                                                         *)
(***************************************************************************)
NULL == {}
Some(v) == {v}
Get(o) == CHOOSE v \in o : TRUE

RecencyDays == 30

(***************************************************************************)
(* The SQL engine's LIKE: % matches any run of characters, _ matches one, *)
(* and letters compare without regard to ASCII case.                       *)
(***************************************************************************)
LowerExact(c) == c

Lower(c) ==
  CASE c = "A" -> "a"
    [] c = "B" -> "b"
    [] c = "C" -> "c"
    [] OTHER -> c

RECURSIVE LikeMatch(_, _)
LikeMatch(p, s) ==
  IF p = <<>> THEN s = <<>>
  ELSE IF Head(p) = "%"
    THEN LikeMatch(Tail(p), s) \/ (s # <<>> /\ LikeMatch(p, Tail(s)))
  ELSE IF s = <<>> THEN FALSE
  ELSE /\ (Head(p) = "_" \/ Lower(Head(p)) = Lower(Head(s)))
       /\ LikeMatch(Tail(p), Tail(s))

(***************************************************************************)
(* Query text.  Sym(c) is one symbol of query text, Num(n) a formatted    *)
(* number.  Txt(s) is the interpolation of a user string: its symbols,    *)
(* unchanged and unescaped.                                                *)
(***************************************************************************)
Sym(c) == [t |-> "sym", s |-> c, n |-> 0, v |-> <<>>]
Num(n) == [t |-> "num", s |-> "", n |-> n, v |-> <<>>]
Str(v) == [t |-> "str", s |-> "", n |-> 0, v |-> v]
Txt(s) == [i \in 1..Len(s) |-> Sym(s[i])]

RECURSIVE Join(_, _)
Join(parts, sep) ==
  IF parts = <<>> THEN <<>>
  ELSE IF Len(parts) = 1 THEN parts[1]
  ELSE parts[1] \o sep \o Join(Tail(parts), sep)

Columns == {"target_name", "acquirer_name", "industry", "deal_value",
            "announcement_date"}
Comparators == {"LIKE", "=", ">=", "<="}
Connectives == {"(", ")", "OR", "AND"}
DateNow30 == "date('now','-30 days')"

(***************************************************************************)
(* Lexer of the SQL engine, for the part of the language the alert        *)
(* queries (and text injected into them) use: string literals in single   *)
(* quotes with '' as the escaped quote, numbers, column names, the        *)
(* comparison and logical words.  Anything else, and an unterminated      *)
(* literal, is an error token.                                             *)
(*                                                                         *)
(* The quotes of the text pair up in order: the 1st opens and the 2nd     *)
(* closes, the 3rd opens and so on.  A closing quote directly followed by *)
(* an opening one is an escaped quote: the literal goes on.  LexPairs     *)
(* walks the pairs; lit is the literal being read, prevEnd the position   *)
(* of the last closing quote.                                              *)
(***************************************************************************)
BadTok == [t |-> "bad", s |-> "", n |-> 0, v |-> <<>>]

IsQuote(sym) == sym.t = "sym" /\ sym.s = "'"

QuotePositions(q) == SelectSeq([i \in 1..Len(q) |-> i], LAMBDA i : IsQuote(q[i]))

OutsideToken(sym) ==
  IF sym.t = "num" THEN sym
  ELSE IF sym.s \in Columns \cup Comparators \cup Connectives \cup {DateNow30} THEN sym
  ELSE BadTok

Outside(q, i, j) == [k \in 1..(j - i + 1) |-> OutsideToken(q[i + k - 1])]

Flush(out, lit) == IF lit = NULL THEN out ELSE Append(out, Str(Get(lit)))

RECURSIVE LexPairs(_, _, _, _, _, _)
LexPairs(q, qp, k, out, lit, prevEnd) ==
  IF 2 * k > Len(qp) THEN
    IF Len(qp) % 2 = 1 THEN Append(Flush(out, lit), BadTok)
    ELSE Flush(out, lit) \o Outside(q, prevEnd + 1, Len(q))
  ELSE
    LET start == qp[2 * k - 1]
        end == qp[2 * k]
        text == [i \in 1..(end - start - 1) |-> q[start + i].s]
    IN IF lit # NULL /\ start = prevEnd + 1
         THEN LexPairs(q, qp, k + 1, out, Some(Get(lit) \o <<"'">> \o text), end)
         ELSE LexPairs(q, qp, k + 1,
                       Flush(out, lit) \o Outside(q, prevEnd + 1, start - 1),
                       Some(text), end)

Tokens(q) == LexPairs(q, QuotePositions(q), 1, <<>>, NULL, 0)

(***************************************************************************)
(* Values of the SQL engine and its comparisons.  A comparison with NULL  *)
(* is NULL; the queries have no NOT, so NULL and false select the same    *)
(* rows and both are FALSE here.  Numbers sort before text.                *)
(***************************************************************************)
VNull == [k |-> "null", n |-> 0, s |-> <<>>]
VNum(n) == [k |-> "num", n |-> n, s |-> <<>>]
VText(s) == [k |-> "text", n |-> 0, s |-> s]

ColVal(row, c) ==
  CASE c = "target_name" ->
         IF row.target_name = NULL THEN VNull ELSE VText(Get(row.target_name))
    [] c = "acquirer_name" ->
         IF row.acquirer_name = NULL THEN VNull ELSE VText(Get(row.acquirer_name))
    [] c = "industry" ->
         IF row.industry = NULL THEN VNull ELSE VText(Get(row.industry))
    [] c = "deal_value" ->
         IF row.deal_value = NULL THEN VNull ELSE VNum(Get(row.deal_value))
    [] c = "announcement_date" ->
         IF row.announcement_date = NULL THEN VNull
         ELSE VNum(Get(row.announcement_date))

IsOperand(tok) ==
  \/ tok.t \in {"str", "num"}
  \/ tok.t = "sym" /\ tok.s \in Columns \cup {DateNow30}

OperandVal(tok, row, today) ==
  CASE tok.t = "str" -> VText(tok.v)
    [] tok.t = "num" -> VNum(tok.n)
    [] tok.s = DateNow30 -> VNum(today - RecencyDays)
    [] OTHER -> ColVal(row, tok.s)

Compare(op, a, b) ==
  IF a.k = "null" \/ b.k = "null" THEN FALSE
  ELSE CASE op = "LIKE" -> a.k = "text" /\ b.k = "text" /\ LikeMatch(b.s, a.s)
         [] op = "=" -> a = b
         [] op = ">=" -> IF a.k = b.k THEN (IF a.k = "num" THEN a.n >= b.n ELSE a.s = b.s)
                         ELSE a.k = "text"
         [] op = "<=" -> IF a.k = b.k THEN (IF a.k = "num" THEN a.n <= b.n ELSE a.s = b.s)
                         ELSE a.k = "num"

(***************************************************************************)
(* Parser and evaluator of a WHERE condition over one row: OR binds       *)
(* weakest, then AND, then a comparison or a parenthesised condition.     *)
(* The result is [ok, val, pos]: whether the text from position i parses, *)
(* its truth for the row, and the position after it.                       *)
(***************************************************************************)
Fail == [ok |-> FALSE, val |-> FALSE, pos |-> 0]
IsSym(ts, i, c) == i <= Len(ts) /\ ts[i].t = "sym" /\ ts[i].s = c

RECURSIVE ParseOr(_, _, _, _), ParseOrRest(_, _, _, _, _)
RECURSIVE ParseAnd(_, _, _, _), ParseAndRest(_, _, _, _, _)
RECURSIVE ParsePred(_, _, _, _)

ParsePred(ts, i, row, today) ==
  IF IsSym(ts, i, "(") THEN
    LET r == ParseOr(ts, i + 1, row, today) IN
      IF r.ok /\ IsSym(ts, r.pos, ")") THEN [r EXCEPT !.pos = r.pos + 1] ELSE Fail
  ELSE IF /\ i + 2 <= Len(ts)
          /\ IsOperand(ts[i])
          /\ ts[i+1].t = "sym" /\ ts[i+1].s \in Comparators
          /\ IsOperand(ts[i+2])
    THEN [ok |-> TRUE,
          val |-> Compare(ts[i+1].s, OperandVal(ts[i], row, today),
                          OperandVal(ts[i+2], row, today)),
          pos |-> i + 3]
  ELSE Fail

ParseAndRest(ts, acc, i, row, today) ==
  IF IsSym(ts, i, "AND") THEN
    LET r == ParsePred(ts, i + 1, row, today) IN
      IF r.ok THEN ParseAndRest(ts, acc /\ r.val, r.pos, row, today) ELSE Fail
  ELSE [ok |-> TRUE, val |-> acc, pos |-> i]

ParseAnd(ts, i, row, today) ==
  LET r == ParsePred(ts, i, row, today) IN
    IF r.ok THEN ParseAndRest(ts, r.val, r.pos, row, today) ELSE Fail

ParseOrRest(ts, acc, i, row, today) ==
  IF IsSym(ts, i, "OR") THEN
    LET r == ParseAnd(ts, i + 1, row, today) IN
      IF r.ok THEN ParseOrRest(ts, acc \/ r.val, r.pos, row, today) ELSE Fail
  ELSE [ok |-> TRUE, val |-> acc, pos |-> i]

ParseOr(ts, i, row, today) ==
  LET r == ParseAnd(ts, i, row, today) IN
    IF r.ok THEN ParseOrRest(ts, r.val, r.pos, row, today) ELSE Fail

NoRow == [id |-> 0, target_name |-> NULL, acquirer_name |-> NULL,
          deal_value |-> NULL, industry |-> NULL, announcement_date |-> NULL]

Where(ts, row, today) == ParseOr(ts, 1, row, today)

QueryOk(q) ==
  LET ts == Tokens(q) r == Where(ts, NoRow, 0) IN r.ok /\ r.pos = Len(ts) + 1

(***************************************************************************)
(* Python truthiness of the filter values test_alert and run_all_alerts   *)
(* test with a bare "if": a missing key, None, 0, the empty string and    *)
(* the empty list are all false.                                           *)
(***************************************************************************)
TruthyNum(o) == o # NULL /\ Get(o) # 0
TruthyText(o) == o # NULL /\ Get(o) # <<>>

(***************************************************************************)
(* The WHERE text test_alert builds, one piece per statement of the code. *)
(***************************************************************************)
KeywordConditionTargetOnly(keyword) ==
  <<Sym("target_name"), Sym("LIKE"), Sym("'"), Sym("%")>> \o Txt(keyword)
    \o <<Sym("%"), Sym("'")>>

KeywordCondition(keyword) ==
  <<Sym("target_name"), Sym("LIKE"), Sym("'"), Sym("%")>> \o Txt(keyword)
    \o <<Sym("%"), Sym("'"), Sym("OR"),
         Sym("acquirer_name"), Sym("LIKE"), Sym("'"), Sym("%")>> \o Txt(keyword)
    \o <<Sym("%"), Sym("'")>>

IndustryCondition(industry) ==
  <<Sym("industry"), Sym("="), Sym("'")>> \o Txt(industry) \o <<Sym("'")>>

KeywordClause(keywords) ==
  <<Sym("(")>>
    \o Join([i \in 1..Len(keywords) |-> KeywordCondition(keywords[i])], <<Sym("OR")>>)
    \o <<Sym(")")>>

IndustryClause(filters) ==
  IF filters.industries # <<>>
    THEN <<Sym("AND"), Sym("(")>>
           \o Join([i \in 1..Len(filters.industries) |->
                      IndustryCondition(filters.industries[i])], <<Sym("OR")>>)
           \o <<Sym(")")>>
    ELSE <<>>

MinClause(filters) ==
  IF filters.min_deal_size > 0
    THEN <<Sym("AND"), Sym("deal_value"), Sym(">="), Num(filters.min_deal_size)>>
    ELSE <<>>

MaxClause(filters) ==
  IF TruthyNum(filters.max_deal_size)
    THEN <<Sym("AND"), Sym("deal_value"), Sym("<="), Num(Get(filters.max_deal_size))>>
    ELSE <<>>

RecentClauseAbsent == <<>>

RecentClause ==
  <<Sym("AND"), Sym("announcement_date"), Sym(">="), Sym(DateNow30)>>

AlertQuery(keywords, filters) ==
  KeywordClause(keywords) \o IndustryClause(filters) \o MinClause(filters)
    \o MaxClause(filters) \o RecentClause

(***************************************************************************)
(* Running a query over the deals table: an error of the engine (the text *)
(* does not parse) raises; otherwise the rows for which the condition is  *)
(* true, in table order.                                                   *)
(***************************************************************************)
Selected(q, table, today) ==
  LET ts == Tokens(q) IN SelectSeq(table, LAMBDA row : Where(ts, row, today).val)

(***************************************************************************)
(* test_alert(alert): the matching deals.  Every exception (a query the   *)
(* engine rejects, storage that cannot be read) is caught and an empty    *)
(* frame is returned.  dbFails says that the storage cannot be read.      *)
(***************************************************************************)
TestAlertRaises(alert, dbFails) ==
  dbFails \/ ~QueryOk(AlertQuery(alert.keywords, alert.filters))

TestAlert(alert, table, today, dbFails) ==
  IF TestAlertRaises(alert, dbFails) THEN <<>>
  ELSE Selected(AlertQuery(alert.keywords, alert.filters), table, today)

(***************************************************************************)
(* search_deals_by_keywords(keywords, filters): the same keyword and      *)
(* filter clauses without the recency bound, newest announcement first.   *)
(* filters is optional; the date_from and date_to keys are absent in the  *)
(* inputs modelled here.                                                   *)
(***************************************************************************)
SearchQuery(keywords, filters) ==
  KeywordClause(keywords)
    \o (IF filters # NULL
          THEN IndustryClause(Get(filters)) \o MinClause(Get(filters))
                 \o MaxClause(Get(filters))
          ELSE <<>>)

DateKey(row) ==
  IF row.announcement_date = NULL THEN -1000 ELSE Get(row.announcement_date)

RECURSIVE InsertDesc(_, _)
InsertDesc(row, sorted) ==
  IF sorted = <<>> THEN <<row>>
  ELSE IF DateKey(Head(sorted)) >= DateKey(row)
    THEN <<Head(sorted)>> \o InsertDesc(row, Tail(sorted))
  ELSE <<row>> \o sorted

RECURSIVE OrderByDateDesc(_)
OrderByDateDesc(rows) ==
  IF rows = <<>> THEN <<>>
  ELSE InsertDesc(rows[Len(rows)], OrderByDateDesc(SubSeq(rows, 1, Len(rows) - 1)))

SearchDealsByKeywords(keywords, filters, table, today) ==
  IF ~QueryOk(SearchQuery(keywords, filters)) THEN <<>>
  ELSE OrderByDateDesc(Selected(SearchQuery(keywords, filters), table, today))

(***************************************************************************)
(* The alerts table.  keywords and filters are stored as JSON text:       *)
(* json_dumps wraps a value as text, json_loads gives the value back and  *)
(* raises on text that is not JSON.  email_notifications is stored as an  *)
(* integer.                                                                *)
(***************************************************************************)
json_dumps(value) == [json |-> TRUE, value |-> value]
json_loads_raises(text) == ~text.json
json_loads(text) == text.value

StoredBool(b) == IF b THEN 1 ELSE 0
bool(x) == x # 0

(***************************************************************************)
(* create_alert: one INSERT; id from the table's AUTOINCREMENT counter,   *)
(* created_date from CURRENT_TIMESTAMP, last_triggered NULL.  Nothing is  *)
(* validated.                                                              *)
(***************************************************************************)
InsertAlert(table, id, user_id, alert_name, keywords, filters, email_notifications, today) ==
  Append(table,
         [id |-> id, user_id |-> user_id, alert_name |-> alert_name,
          keywords |-> json_dumps(keywords), filters |-> json_dumps(filters),
          email_notifications |-> StoredBool(email_notifications),
          created_date |-> today, last_triggered |-> NULL])

DeleteAlertRows(table, alert_id) ==
  SelectSeq(table, LAMBDA row : row.id # alert_id)

(***************************************************************************)
(* update_alert_triggered(alert_id): UPDATE ... SET last_triggered = now  *)
(* WHERE id = alert_id; a storage error is caught and the table is left   *)
(* as it was.                                                              *)
(***************************************************************************)
UpdateAlertTriggeredAlways(table, alert_id, today, dbFails) ==
  [i \in 1..Len(table) |-> [table[i] EXCEPT !.last_triggered = Some(today)]]

UpdateAlertTriggeredAndCreated(table, alert_id, today, dbFails) ==
  [i \in 1..Len(table) |->
     IF table[i].id = alert_id
       THEN [table[i] EXCEPT !.last_triggered = Some(today), !.created_date = today + 1]
       ELSE table[i]]

UpdateAlertTriggered(table, alert_id, today, dbFails) ==
  IF dbFails THEN table
  ELSE [i \in 1..Len(table) |->
          IF table[i].id = alert_id
            THEN [table[i] EXCEPT !.last_triggered = Some(today)]
            ELSE table[i]]

(***************************************************************************)
(* send_email_alert: the payload (recipient, subject naming the alert,    *)
(* the match count and the first five matches), shown rather than sent.   *)
(***************************************************************************)
HeadCount == 5

SendEmailAlert(alert, matches) ==
  [to |-> Get(alert.filters.email_address),
   subject |-> alert.alert_name,
   alert_id |-> alert.id,
   count |-> Len(matches),
   listed |-> SubSeq(matches, 1, IF Len(matches) > HeadCount THEN HeadCount
                                  ELSE Len(matches))]

(***************************************************************************)
(* run_all_alerts: reads all alert rows, then for each row in turn        *)
(* decodes it, runs test_alert, stores the matches under the alert's      *)
(* name, and on a non-empty match set updates last_triggered and, with    *)
(* notifications enabled and an address configured, produces the          *)
(* payload.  An exception in the loop (a row that does not decode)        *)
(* leaves the loop; the function then returns the empty mapping.          *)
(* st is the state of the loop: the alerts table, the results so far,     *)
(* the payloads and the test_alert calls made.                             *)
(***************************************************************************)
EmptyMap == [name \in {} |-> <<>>]

AlertOf(row) ==
  [id |-> row.id, user_id |-> row.user_id, alert_name |-> row.alert_name,
   keywords |-> json_loads(row.keywords), filters |-> json_loads(row.filters),
   email_notifications |-> bool(row.email_notifications),
   created_date |-> row.created_date, last_triggered |-> NULL]

AlertOfRaises(row) ==
  json_loads_raises(row.keywords) \/ json_loads_raises(row.filters)

NotifyDueIgnoringFlag(alert, matches) ==
  /\ Len(matches) > 0
  /\ TruthyText(alert.filters.email_address)

NotifyDue(alert, matches) ==
  /\ Len(matches) > 0
  /\ alert.email_notifications
  /\ TruthyText(alert.filters.email_address)

RECURSIVE RunLoop(_, _, _, _, _, _)
RunStep(st, alert, matches, today, faults) ==
  [alerts |-> IF Len(matches) > 0
                THEN UpdateAlertTriggered(st.alerts, alert.id, today,
                                          alert.id \in faults.update)
                ELSE st.alerts,
   results |-> (alert.alert_name :> matches) @@ st.results,
   emails |-> IF NotifyDue(alert, matches)
                THEN Append(st.emails, SendEmailAlert(alert, matches))
                ELSE st.emails,
   evals |-> Append(st.evals, [id |-> alert.id, matches |-> matches]),
   raised |-> FALSE]

RunLoop(rows, i, st, table, today, faults) ==
  IF i > Len(rows) THEN st
  ELSE IF AlertOfRaises(rows[i]) THEN [st EXCEPT !.raised = TRUE]
  ELSE
    LET next == {RunStep(s, alert, matches, today, faults) :
                   s \in {st}, alert \in {AlertOf(rows[i])},
                   matches \in {TestAlert(AlertOf(rows[i]), table, today,
                                          rows[i].id \in faults.query)}}
    IN RunLoop(rows, i + 1, CHOOSE s \in next : TRUE, table, today, faults)

RunAll(alertRows, table, today, faults) ==
  IF faults.read
    THEN [alerts |-> alertRows, results |-> EmptyMap, emails |-> <<>>,
          evals |-> <<>>, raised |-> TRUE]
    ELSE RunLoop(alertRows, 1,
                 [alerts |-> alertRows, results |-> EmptyMap, emails |-> <<>>,
                  evals |-> <<>>, raised |-> FALSE],
                 table, today, faults)

NoFaults == [read |-> FALSE, query |-> {}, update |-> {}]

(***************************************************************************)
(* Bounds and input domains.                                               *)
(***************************************************************************)
MaxDeals == 2
MaxAlerts == 2
MaxTime == 1

Technology == <<"t", "e", "c", "h">>
Healthcare == <<"h", "e", "a", "l", "t", "h">>

KwA == <<"a">>
KwB == <<"b">>
KwC == <<"c">>
KwAb == <<"a", "b">>
KwQuote == <<"o", "'", "b">>
KwWild == <<"_">>
KwBreakout == <<"%", "'", ")", "OR", "(", "'", "a", "'", "LIKE", "'", "%", "a">>

Deal(id, target, acquirer, value, industry, date) ==
  [id |-> id, target_name |-> target, acquirer_name |-> acquirer,
   deal_value |-> value, industry |-> industry, announcement_date |-> date]

DealTablesOver(names, values, industries, dates, maxLen) ==
  UNION {
    {[i \in 1..n |-> Deal(i, f[i][1][1], f[i][1][2], f[i][2], f[i][3], f[i][4])] :
       f \in [1..n -> names \X values \X industries \X dates]} :
    n \in 0..maxLen}

Filters(industries, min, max, email) ==
  [industries |-> industries, min_deal_size |-> min, max_deal_size |-> max,
   email_address |-> email]

NoFilters == Filters(<<>>, 0, NULL, NULL)

(***************************************************************************)
(* State: the deals and alerts tables of the data file, the alerts        *)
(* table's AUTOINCREMENT counter, the current day, and the operation of   *)
(* the last step with what it returned.                                    *)
(***************************************************************************)
(***************************************************************************)
(* Ingestion (EnhancedDataIngestion).  data_schemas is the registry of    *)
(* the five sources.  A batch is its set of column names and, row by      *)
(* row, the deal_value cell (NULL for a missing value); the cells count   *)
(* only when the batch has a deal_value column.                            *)
(***************************************************************************)
data_schemas ==
  ("mergermarket" :>
     [required_columns |-> <<"deal_id", "target_name", "acquirer_name", "deal_value",
                             "announcement_date">>,
      optional_columns |-> <<"industry", "sector", "geography", "deal_type", "status",
                             "completion_date">>]) @@
  ("preqin" :>
     [required_columns |-> <<"fund_name", "target_company", "investment_amount",
                             "investment_date">>,
      optional_columns |-> <<"fund_type", "industry", "geography", "stage", "exit_date",
                             "exit_value">>]) @@
  ("sec_filings" :>
     [required_columns |-> <<"company_name", "filing_type", "filing_date", "content">>,
      optional_columns |-> <<"cik", "ticker", "form_type", "url">>]) @@
  ("index_constituents" :>
     [required_columns |-> <<"company_name", "ticker", "index_name">>,
      optional_columns |-> <<"sector", "industry", "market_cap", "weight", "country">>]) @@
  ("press_releases" :>
     [required_columns |-> <<"company_name", "title", "date", "content">>,
      optional_columns |-> <<"source", "url", "sentiment", "keywords">>])

SetOf(seq) == {seq[i] : i \in 1..Len(seq)}

MissingRequiredAll(schema, columns) == SetOf(schema.required_columns)

MissingRequired(schema, columns) == SetOf(schema.required_columns) \ columns

NullValues(cells) == Cardinality({i \in 1..Len(cells) : cells[i] = NULL})

HighNullsFromHalf(null_values, len) == null_values * 2 >= len

HighNulls(null_values, len) == null_values * 2 > len

Issue(kind, columns, null_values, len) ==
  [kind |-> kind, columns |-> columns, null_values |-> null_values, len |-> len]

validate_data_schema(df, data_source) ==
  IF data_source \notin DOMAIN data_schemas
    THEN [valid |-> TRUE, issues |-> <<>>]
    ELSE LET missing_required == MissingRequired(data_schemas[data_source], df.columns)
             issues ==
               (IF missing_required # {}
                  THEN <<Issue("Missing required columns", missing_required, 0, 0)>>
                  ELSE <<>>)
               \o (IF "deal_value" \in df.columns
                        /\ HighNulls(NullValues(df.cells), Len(df.cells))
                     THEN <<Issue("High percentage of missing deal values", {},
                                  NullValues(df.cells), Len(df.cells))>>
                     ELSE <<>>)
         IN [valid |-> Len(issues) = 0, issues |-> issues]

get_data_template(data_source) ==
  IF data_source \notin DOMAIN data_schemas
    THEN [columns |-> <<>>, rows |-> 0]
    ELSE [columns |-> data_schemas[data_source].required_columns
                        \o data_schemas[data_source].optional_columns,
          rows |-> 0]

(***************************************************************************)
(* Monetary cells: the text of the cell with every "$" and every ","      *)
(* removed, then to_numeric with errors='coerce': a number when what is   *)
(* left is an optional "-" and digits with at most one decimal point,     *)
(* NULL otherwise.  A number is a float of the size of a deal value or a  *)
(* market capitalisation, kept as its sign, the digits of its whole part  *)
(* without leading zeros and the digits of its fraction without trailing  *)
(* zeros.                                                                  *)
(***************************************************************************)
Digits == {"0", "1"}

RECURSIVE StripLeadingZeros(_)
StripLeadingZeros(ds) ==
  IF ds # <<>> /\ Head(ds) = "0" THEN StripLeadingZeros(Tail(ds)) ELSE ds

RECURSIVE StripTrailingZeros(_)
StripTrailingZeros(ds) ==
  IF ds # <<>> /\ ds[Len(ds)] = "0"
    THEN StripTrailingZeros(SubSeq(ds, 1, Len(ds) - 1))
    ELSE ds

Number(neg, whole, fraction) ==
  [neg |-> neg /\ (StripLeadingZeros(whole) # <<>> \/ StripTrailingZeros(fraction) # <<>>),
   whole |-> StripLeadingZeros(whole),
   fraction |-> StripTrailingZeros(fraction)]

RECURSIVE Substitute(_, _, _)
Substitute(s, c, by) ==
  IF s = <<>> THEN <<>>
  ELSE (IF Head(s) = c THEN by ELSE <<Head(s)>>) \o Substitute(Tail(s), c, by)

Replace(s, c) == Substitute(s, c, <<>>)

to_numeric(text) ==
  LET neg == text # <<>> /\ Head(text) = "-"
      s == IF neg THEN Tail(text) ELSE text
      points == {i \in 1..Len(s) : s[i] = "."}
  IN IF \/ \E i \in 1..Len(s) : s[i] \notin Digits \cup {"."}
        \/ Cardinality(points) > 1
        \/ \A i \in 1..Len(s) : s[i] \notin Digits
       THEN NULL
       ELSE IF points = {}
         THEN Some(Number(neg, s, <<>>))
         ELSE LET p == CHOOSE i \in points : TRUE
              IN Some(Number(neg, SubSeq(s, 1, p - 1), SubSeq(s, p + 1, Len(s))))

CleanDealValue(cell) == to_numeric(Replace(Replace(cell, "$"), ","))

Zeros(n) == [i \in 1..n |-> "0"]

CleanMarketCap(cell) ==
  to_numeric(Substitute(Substitute(Replace(cell, "$"), "B", Zeros(9)), "M", Zeros(6)))

MaxRows == 5
MaxMoneyLen == 6
MaxCapLen == 4
MaxWords == 2

(***************************************************************************)
(* get_user_alerts: SELECT ... WHERE user_id = ? ORDER BY created_date    *)
(* DESC, then every row decoded into an Alert.  The engine may return     *)
(* rows of equal created_date in any order.  The timestamps the program   *)
(* writes always parse; a NULL last_triggered stays None.  Any exception  *)
(* is caught and the empty list returned.                                  *)
(***************************************************************************)
SelectByUserAll(table, user_id) == table

SelectByUser(table, user_id) == SelectSeq(table, LAMBDA row : row.user_id = user_id)

OrderByCreatedDesc(rows) ==
  {[i \in 1..Len(rows) |-> rows[f[i]]] :
     f \in {g \in [1..Len(rows) -> 1..Len(rows)] :
              /\ \A i, j \in 1..Len(rows) : i # j => g[i] # g[j]
              /\ \A i, j \in 1..Len(rows) :
                   i < j => rows[g[i]].created_date >= rows[g[j]].created_date}}

UserAlertOf(row) ==
  [AlertOf(row) EXCEPT !.last_triggered =
     IF row.last_triggered # NULL THEN row.last_triggered ELSE NULL]

GetUserAlerts(rows) ==
  IF \E i \in 1..Len(rows) : AlertOfRaises(rows[i])
    THEN <<>>
    ELSE [i \in 1..Len(rows) |-> UserAlertOf(rows[i])]

(***************************************************************************)
(* Derived fields (extract_red_flags, extract_deal_mentions).  A cell of  *)
(* a content column is missing, a text, or a value that is not text (a    *)
(* number read from a JSON or Excel upload).  The two vocabularies are    *)
(* the lists of __init__, letter for letter.                               *)
(***************************************************************************)
red_flag_keywords ==
  << <<"l", "i", "t", "i", "g", "a", "t", "i", "o", "n">>,
     <<"l", "a", "w", "s", "u", "i", "t">>,
     <<"i", "n", "v", "e", "s", "t", "i", "g", "a", "t", "i", "o", "n">>,
     <<"f", "r", "a", "u", "d">>,
     <<"b", "a", "n", "k", "r", "u", "p", "t", "c", "y">>,
     <<"r", "e", "g", "u", "l", "a", "t", "o", "r", "y", " ", "a", "c", "t", "i", "o", "n">>,
     <<"p", "e", "n", "a", "l", "t", "y">>,
     <<"f", "i", "n", "e">>,
     <<"v", "i", "o", "l", "a", "t", "i", "o", "n">>,
     <<"c", "o", "m", "p", "l", "i", "a", "n", "c", "e">>,
     <<"S", "E", "C", " ", "i", "n", "v", "e", "s", "t", "i", "g", "a", "t", "i", "o", "n">>,
     <<"m", "a", "n", "a", "g", "e", "m", "e", "n", "t", " ", "t", "u", "r", "n", "o", "v",
       "e", "r">>,
     <<"r", "e", "s", "i", "g", "n", "a", "t", "i", "o", "n">>,
     <<"f", "i", "r", "e", "d">>,
     <<"a", "c", "c", "o", "u", "n", "t", "i", "n", "g", " ", "i", "r", "r", "e", "g", "u",
       "l", "a", "r", "i", "t", "i", "e", "s">>,
     <<"r", "e", "s", "t", "a", "t", "e", "m", "e", "n", "t">>,
     <<"a", "u", "d", "i", "t">>,
     <<"w", "h", "i", "s", "t", "l", "e">> >>

deal_keywords ==
  << <<"a", "c", "q", "u", "i", "s", "i", "t", "i", "o", "n">>,
     <<"m", "e", "r", "g", "e", "r">>,
     <<"t", "a", "k", "e", "o", "v", "e", "r">>,
     <<"b", "u", "y", "o", "u", "t">>,
     <<"i", "n", "v", "e", "s", "t", "m", "e", "n", "t">>,
     <<"s", "t", "r", "a", "t", "e", "g", "i", "c", " ", "p", "a", "r", "t", "n", "e", "r",
       "s", "h", "i", "p">>,
     <<"j", "o", "i", "n", "t", " ", "v", "e", "n", "t", "u", "r", "e">>,
     <<"d", "i", "v", "e", "s", "t", "i", "t", "u", "r", "e">>,
     <<"s", "p", "i", "n", "-", "o", "f", "f">>,
     <<"I", "P", "O">>,
     <<"g", "o", "i", "n", "g", " ", "p", "r", "i", "v", "a", "t", "e">>,
     <<"t", "e", "n", "d", "e", "r", " ", "o", "f", "f", "e", "r">>,
     <<"b", "i", "d">>,
     <<"p", "u", "r", "c", "h", "a", "s", "e">> >>

UpperCase == <<"A", "B", "C", "D", "E", "F", "G", "H", "I", "J", "K", "L", "M", "N", "O", "P", "Q", "R", "S", "T", "U", "V", "W", "X", "Y", "Z">>

LowerCase == <<"a", "b", "c", "d", "e", "f", "g", "h", "i", "j", "k", "l", "m", "n", "o", "p", "q", "r", "s", "t", "u", "v", "w", "x", "y", "z">>

str_lower(text) ==
  [i \in 1..Len(text) |->
     IF \E k \in 1..26 : UpperCase[k] = text[i]
       THEN LowerCase[CHOOSE k \in 1..26 : UpperCase[k] = text[i]]
       ELSE text[i]]

In(term, text) ==
  \E i \in 0..(Len(text) - Len(term)) : SubSeq(text, i + 1, i + Len(term)) = term

NullCell == [kind |-> "null", text |-> <<>>]
TextCell(text) == [kind |-> "text", text |-> text]
NumberCell == [kind |-> "number", text |-> <<>>]

isna(cell) == cell.kind = "null"

FoundIn(vocabulary, text_lower) == SelectSeq(vocabulary, LAMBDA term : In(term, text_lower))

Extract(vocabulary, cell) ==
  IF isna(cell) THEN [raised |-> FALSE, found |-> <<>>, val |-> <<>>]
  ELSE IF cell.kind # "text" THEN [raised |-> TRUE, found |-> <<>>, val |-> <<>>]
  ELSE LET found == FoundIn(vocabulary, str_lower(cell.text))
       IN [raised |-> FALSE, found |-> found, val |-> Join(found, <<",", " ">>)]

extract_red_flags(cell) == Extract(red_flag_keywords, cell)

extract_deal_mentions(cell) == Extract(deal_keywords, cell)

(***************************************************************************)
(* The database.  init_database creates each of the five tables unless    *)
(* it exists; a table is known by its columns and its UNIQUE columns.     *)
(* A batch (DataFrame) is its set of columns and its rows, each row a     *)
(* function from the columns to cells.  The rowid column id is filled by  *)
(* the engine and is not kept in the rows of deals and filings here.      *)
(***************************************************************************)
CreatedTables ==
  ("deals" :>
     [columns |-> {"id", "deal_id", "target_name", "acquirer_name", "deal_value",
                   "announcement_date", "completion_date", "industry", "sector", "geography",
                   "deal_type", "status", "source", "import_date", "tags", "notes"},
      unique |-> {"deal_id"}]) @@
  ("companies" :>
     [columns |-> {"id", "company_name", "ticker", "industry", "sector", "geography",
                   "market_cap", "revenue", "ebitda", "employees", "index_membership", "tags",
                   "watchlist", "last_updated"},
      unique |-> {}]) @@
  ("filings" :>
     [columns |-> {"id", "company_name", "cik", "ticker", "filing_type", "filing_date",
                   "content", "red_flags", "deal_mentions", "source", "url", "import_date"},
      unique |-> {}]) @@
  ("alerts" :>
     [columns |-> {"id", "user_id", "alert_name", "keywords", "filters",
                   "email_notifications", "created_date", "last_triggered"},
      unique |-> {}]) @@
  ("watchlist" :>
     [columns |-> {"id", "user_id", "entity_type", "entity_id", "entity_name", "notes",
                   "added_date"},
      unique |-> {}])

NoTables == [name \in {} |-> {}]

CreateTable(db, name) ==
  [db EXCEPT !.tables = (name :> CreatedTables[name]) @@ db.tables, ![name] = <<>>]

CreateTableIfNotExists(db, name) ==
  IF name \in DOMAIN db.tables THEN db ELSE CreateTable(db, name)

InitDatabase(db) ==
  CreateTableIfNotExists(
    CreateTableIfNotExists(
      CreateTableIfNotExists(
        CreateTableIfNotExists(
          CreateTableIfNotExists(db, "deals"), "companies"), "filings"), "alerts"),
    "watchlist")

(***************************************************************************)
(* pandas.DataFrame.to_sql(name, if_exists='append', index=False) on a    *)
(* table that exists: one INSERT per row inside one transaction.  A       *)
(* column of the batch the table lacks, or a UNIQUE value that is not     *)
(* NULL and is already stored or repeated in the batch, raises and        *)
(* nothing is stored.                                                      *)
(***************************************************************************)
UniqueBrokenNever(table, rows, df) == FALSE

UniqueBroken(table, rows, df) ==
  \E c \in table.unique \cap df.columns :
    \/ \E i \in 1..Len(df.rows) : \E k \in 1..Len(rows) :
         df.rows[i][c] # NULL /\ c \in DOMAIN rows[k] /\ rows[k][c] = df.rows[i][c]
    \/ \E i, j \in 1..Len(df.rows) :
         i # j /\ df.rows[i][c] # NULL /\ df.rows[i][c] = df.rows[j][c]

to_sql(table, rows, df) ==
  IF ~(df.columns \subseteq table.columns) \/ UniqueBroken(table, rows, df)
    THEN [raised |-> TRUE, rows |-> rows]
    ELSE [raised |-> FALSE, rows |-> rows \o df.rows]

(***************************************************************************)
(* process_uploaded_file.  The column names of the upload are taken as    *)
(* already lower-cased with "_" for blanks and hyphens.  Each source has  *)
(* its date columns (to_datetime, errors='coerce'), its amount columns,   *)
(* the fields it derives from content and its source label; a source      *)
(* without a processor is returned as read.  An exception anywhere is     *)
(* caught and None returned.                                               *)
(***************************************************************************)
ParsableDates == {"2024-01-05"}

to_datetime(cell) == IF cell \in ParsableDates THEN Some(cell) ELSE NULL

positive_words ==
  << <<"g", "r", "o", "w", "t", "h">>,
     <<"e", "x", "p", "a", "n", "s", "i", "o", "n">>,
     <<"s", "u", "c", "c", "e", "s", "s">>,
     <<"s", "t", "r", "o", "n", "g">>,
     <<"p", "o", "s", "i", "t", "i", "v", "e">>,
     <<"g", "o", "o", "d">> >>

negative_words ==
  << <<"d", "e", "c", "l", "i", "n", "e">>,
     <<"l", "o", "s", "s">>,
     <<"w", "e", "a", "k">>,
     <<"n", "e", "g", "a", "t", "i", "v", "e">>,
     <<"p", "o", "o", "r">>,
     <<"d", "i", "f", "f", "i", "c", "u", "l", "t">> >>

analyze_sentiment(cell) ==
  IF isna(cell) THEN [raised |-> FALSE, val |-> "Neutral"]
  ELSE IF cell.kind # "text" THEN [raised |-> TRUE, val |-> "Neutral"]
  ELSE LET positive_score == Len(FoundIn(positive_words, str_lower(cell.text)))
           negative_score == Len(FoundIn(negative_words, str_lower(cell.text)))
       IN [raised |-> FALSE,
           val |-> IF positive_score > negative_score THEN "Positive"
                   ELSE IF negative_score > positive_score THEN "Negative"
                   ELSE "Neutral"]

Processors ==
  ("mergermarket" :>
     [dates |-> {"announcement_date", "completion_date", "expected_completion"},
      amounts |-> {"deal_value"}, caps |-> {}, derived |-> {}, source |-> "Mergermarket"]) @@
  ("preqin" :>
     [dates |-> {"investment_date", "exit_date", "fund_vintage"},
      amounts |-> {"investment_amount", "exit_value", "fund_size"}, caps |-> {},
      derived |-> {}, source |-> "Preqin"]) @@
  ("sec_filings" :>
     [dates |-> {"filing_date"}, amounts |-> {}, caps |-> {},
      derived |-> {"red_flags", "deal_mentions"}, source |-> "SEC EDGAR"]) @@
  ("index_constituents" :>
     [dates |-> {}, amounts |-> {}, caps |-> {"market_cap"}, derived |-> {},
      source |-> "Index Data"]) @@
  ("press_releases" :>
     [dates |-> {"date"}, amounts |-> {}, caps |-> {},
      derived |-> {"deal_mentions", "red_flags", "sentiment"}, source |-> "Press Release"])

Derived(c, cell) ==
  IF c = "red_flags" THEN extract_red_flags(cell)
  ELSE IF c = "deal_mentions" THEN extract_deal_mentions(cell)
  ELSE analyze_sentiment(cell)

DerivedColumns(proc, df) == IF "content" \in df.columns THEN proc.derived ELSE {}

ProcessRow(proc, df, row, today) ==
  [c \in df.columns \cup DerivedColumns(proc, df) \cup {"source", "import_date"} |->
     IF c = "source" THEN Some(proc.source)
     ELSE IF c = "import_date" THEN Some(today)
     ELSE IF c \in DerivedColumns(proc, df) THEN Derived(c, row["content"]).val
     ELSE IF c \in proc.dates THEN to_datetime(row[c])
     ELSE IF c \in proc.amounts THEN CleanDealValue(row[c])
     ELSE IF c \in proc.caps THEN CleanMarketCap(row[c])
     ELSE row[c]]

process_uploaded_file(df, data_source, today) ==
  IF data_source \notin DOMAIN Processors THEN Some(df)
  ELSE LET proc == Processors[data_source] IN
    IF \E i \in 1..Len(df.rows) : \E c \in DerivedColumns(proc, df) :
         Derived(c, df.rows[i]["content"]).raised
      THEN NULL
      ELSE Some([columns |-> df.columns \cup DerivedColumns(proc, df)
                               \cup {"source", "import_date"},
                 rows |-> [i \in 1..Len(df.rows) |-> ProcessRow(proc, df, df.rows[i], today)]])

(***************************************************************************)
(* import_to_database: the batch goes to deals for mergermarket and       *)
(* preqin, to companies for index_constituents, to filings for            *)
(* sec_filings, and nowhere for any other source; unless to_sql raised    *)
(* the result is success with the number of rows of the batch.            *)
(***************************************************************************)
Routes ==
  ("mergermarket" :> "deals") @@ ("preqin" :> "deals")
    @@ ("index_constituents" :> "companies") @@ ("sec_filings" :> "filings")

Stored(db, df, data_source) ==
  IF data_source \in DOMAIN Routes
    THEN to_sql(db.tables[Routes[data_source]], db[Routes[data_source]], df)
    ELSE [raised |-> FALSE, rows |-> <<>>]

import_to_database(db, df, data_source) ==
  LET st == Stored(db, df, data_source) IN
    [success |-> ~st.raised,
     records |-> IF st.raised THEN 0 ELSE Len(df.rows),
     db |-> IF data_source \in DOMAIN Routes
              THEN [db EXCEPT ![Routes[data_source]] = st.rows]
              ELSE db]

(***************************************************************************)
(* Manual entry: the record of the form as a one-row batch, appended by   *)
(* save_manual_entry with to_sql; an exception is caught and False        *)
(* returned.  The deal form's number_input has min_value 0.               *)
(***************************************************************************)
deal_data(target_name, deal_value, today) ==
  [c \in {"target_name", "acquirer_name", "deal_value", "announcement_date", "deal_type",
          "industry", "geography", "status", "notes", "source", "import_date"} |->
     IF c = "target_name" THEN Some(target_name)
     ELSE IF c = "deal_value" THEN Some(deal_value)
     ELSE IF c = "source" THEN Some("Manual Entry")
     ELSE IF c \in {"import_date", "announcement_date"} THEN Some(today)
     ELSE Some("x")]

company_data(company_name, today) ==
  [c \in {"company_name", "ticker", "industry", "geography", "market_cap", "employees",
          "index_membership", "watchlist", "source", "last_updated"} |->
     IF c = "company_name" THEN Some(company_name)
     ELSE IF c = "source" THEN Some("Manual Entry")
     ELSE IF c = "last_updated" THEN Some(today)
     ELSE Some("x")]

DataFrame(data) == [columns |-> DOMAIN data, rows |-> <<data>>]

save_manual_entry(db, data, table) ==
  LET st == to_sql(db.tables[table], db[table], DataFrame(data)) IN
    [val |-> ~st.raised, db |-> [db EXCEPT ![table] = st.rows]]

(***************************************************************************)
(* test_sample_data: INSERT OR REPLACE of the deal TEST001 (a stored row  *)
(* with that deal_id is replaced), a lookup by deal_id, then DELETE by    *)
(* deal_id.                                                                *)
(***************************************************************************)
sample_deal(today) ==
  [c \in {"deal_id", "target_name", "acquirer_name", "deal_value", "announcement_date",
          "industry", "status", "source"} |->
     IF c = "deal_id" THEN Some("TEST001")
     ELSE IF c = "deal_value" THEN Some(Number(FALSE, <<"1", "0", "0">>, <<>>))
     ELSE IF c = "announcement_date" THEN Some(today)
     ELSE IF c = "source" THEN Some("Test Data")
     ELSE Some("x")]

HasDealId(row, deal_id) == "deal_id" \in DOMAIN row /\ row["deal_id"] = Some(deal_id)

SelectDeal(rows, deal_id) == SelectSeq(rows, LAMBDA row : HasDealId(row, deal_id))

DeleteDeal(rows, deal_id) == SelectSeq(rows, LAMBDA row : ~HasDealId(row, deal_id))

InsertOrReplace(rows, row) == Append(DeleteDeal(rows, Get(row["deal_id"])), row)

MaxUploadRows == 2
MaxStored == 2
MaxWatchlist == 1

(***************************************************************************)
(* Company tags (main_app.apply_company_tags).  A tag string is a         *)
(* sequence of characters, "," among them; the companies table is a       *)
(* sequence of rows in rowid order, company_name not being unique.        *)
(* For each name in turn the function reads the tags of the first row of  *)
(* that name (fetchone), computes the new tag string and writes it to     *)
(* every row of that name.                                                 *)
(***************************************************************************)
RECURSIVE SplitComma(_)
SplitComma(s) ==
  IF \A i \in 1..Len(s) : s[i] # ","
    THEN <<s>>
    ELSE LET i == CHOOSE k \in 1..Len(s) : s[k] = "," /\ \A j \in 1..(k - 1) : s[j] # ","
         IN <<SubSeq(s, 1, i - 1)>> \o SplitComma(SubSeq(s, i + 1, Len(s)))

JoinComma(parts) == Join(parts, <<",">>)

Contains(list, x) == \E i \in 1..Len(list) : list[i] = x

FetchOne(table, company_name) ==
  IF \E i \in 1..Len(table) : table[i].company_name = company_name
    THEN [found |-> TRUE,
          tags |-> table[CHOOSE i \in 1..Len(table) :
                           /\ table[i].company_name = company_name
                           /\ \A j \in 1..(i - 1) : table[j].company_name # company_name].tags]
    ELSE [found |-> FALSE, tags |-> NULL]

NewTagsAlwaysAppend(existing_tags, tag) ==
  IF existing_tags.found /\ TruthyText(existing_tags.tags)
    THEN JoinComma(Append(SplitComma(Get(existing_tags.tags)), tag))
    ELSE tag

NewTags(existing_tags, tag) ==
  IF existing_tags.found /\ TruthyText(existing_tags.tags)
    THEN IF ~Contains(SplitComma(Get(existing_tags.tags)), tag)
           THEN JoinComma(Append(SplitComma(Get(existing_tags.tags)), tag))
           ELSE Get(existing_tags.tags)
    ELSE tag

UpdateTags(table, company_name, new_tags) ==
  [i \in 1..Len(table) |->
     IF table[i].company_name = company_name
       THEN [table[i] EXCEPT !.tags = Some(new_tags)]
       ELSE table[i]]

RECURSIVE ApplyCompanyTags(_, _, _)
ApplyCompanyTags(table, company_names, tag) ==
  IF company_names = <<>> THEN table
  ELSE ApplyCompanyTags(
         UpdateTags(table, Head(company_names),
                    NewTags(FetchOne(table, Head(company_names)), tag)),
         Tail(company_names), tag)

Idle == [pc |-> "idle", company_name |-> "", tag |-> <<>>,
         existing_tags |-> [found |-> FALSE, tags |-> NULL]]

Sessions == {1, 2}

NoSessions == [s \in Sessions |-> Idle]

MaxCompanies == 2
MaxTagLen == 3

VARIABLES deals, alerts, nextId, now, ret, companies, sessions, tables, filings, watchlist

vars == <<deals, alerts, nextId, now, ret, companies, sessions, tables, filings, watchlist>>

create_alert(user_id, alert_name, keywords, filters, email_notifications) ==
  /\ nextId <= MaxAlerts
  /\ alerts' = InsertAlert(alerts, nextId, user_id, alert_name, keywords, filters,
                           email_notifications, now)
  /\ nextId' = nextId + 1
  /\ ret' = [op |-> "create_alert", success |-> TRUE, id |-> nextId,
             keywords |-> keywords, filters |-> filters]
  /\ UNCHANGED <<tables, filings, watchlist, companies, sessions, deals, now>>

(***************************************************************************)
(* The "Create Alert" button of create_alert_interface: with a name and   *)
(* at least one keyword it builds the filters (the address only when      *)
(* notifications are ticked, max_deal_size always a number) and calls     *)
(* create_alert for "default_user"; otherwise it shows an error and       *)
(* stores nothing.                                                         *)
(***************************************************************************)
create_alert_interface(alert_name, all_keywords, selected_industries, min_deal_size, max_deal_size, email_notifications, email_address) ==
  IF alert_name # "" /\ all_keywords # <<>>
    THEN /\ nextId <= MaxAlerts
         /\ alerts' = InsertAlert(alerts, nextId, "default_user", alert_name, all_keywords,
                                  Filters(selected_industries, min_deal_size,
                                          Some(max_deal_size),
                                          IF email_notifications THEN Some(email_address)
                                                                 ELSE NULL),
                                  email_notifications, now)
         /\ nextId' = nextId + 1
         /\ ret' = [op |-> "create_alert_interface", success |-> TRUE, id |-> nextId,
                    keywords |-> all_keywords, before |-> alerts]
         /\ UNCHANGED <<tables, filings, watchlist, companies, sessions, deals, now>>
    ELSE /\ ret' = [op |-> "create_alert_interface", success |-> FALSE, id |-> 0,
                    keywords |-> all_keywords, before |-> alerts]
         /\ UNCHANGED <<tables, filings, watchlist, companies, sessions, deals, alerts, nextId, now>>

delete_alert(alert_id) ==
  /\ alerts' = DeleteAlertRows(alerts, alert_id)
  /\ ret' = [op |-> "delete_alert", val |-> TRUE, id |-> alert_id]
  /\ UNCHANGED <<tables, filings, watchlist, companies, sessions, deals, nextId, now>>

test_alert(alert, dbFails) ==
  /\ ret' = [op |-> "test_alert", alert |-> alert,
             val |-> TestAlert(alert, deals, now, dbFails),
             error |-> TestAlertRaises(alert, dbFails),
             before |-> alerts, dealsBefore |-> deals, today |-> now]
  /\ UNCHANGED <<tables, filings, watchlist, companies, sessions, deals, alerts, nextId, now>>

search_deals_by_keywords(keywords, filters) ==
  /\ ret' = [op |-> "search_deals_by_keywords", keywords |-> keywords,
             filters |-> filters,
             val |-> SearchDealsByKeywords(keywords, filters, deals, now),
             before |-> alerts, dealsBefore |-> deals]
  /\ UNCHANGED <<tables, filings, watchlist, companies, sessions, deals, alerts, nextId, now>>

run_all_alerts(faults) ==
  \E st \in {RunAll(alerts, deals, now, faults)} :
    /\ alerts' = st.alerts
    /\ ret' = [op |-> "run_all_alerts",
               val |-> IF st.raised THEN EmptyMap ELSE st.results,
               error |-> st.raised, evals |-> st.evals, emails |-> st.emails,
               before |-> alerts, dealsBefore |-> deals, today |-> now,
               faults |-> faults]
    /\ UNCHANGED <<tables, filings, watchlist, companies, sessions, deals, nextId, now>>

get_user_alerts(user_id) ==
  /\ \E rows \in OrderByCreatedDesc(SelectByUser(alerts, user_id)) :
       ret' = [op |-> "get_user_alerts", user_id |-> user_id, val |-> GetUserAlerts(rows),
               raised |-> FALSE, before |-> alerts]
  /\ UNCHANGED <<tables, filings, watchlist, companies, sessions, deals, alerts, nextId, now>>

Tick ==
  /\ now < MaxTime
  /\ now' = now + 1
  /\ ret' = [op |-> "tick"]
  /\ UNCHANGED <<tables, filings, watchlist, companies, sessions, deals, alerts, nextId>>

(***************************************************************************)
(* The database as one record, for the operations that write to a table   *)
(* chosen by name.                                                         *)
(***************************************************************************)
Db ==
  [tables |-> tables, deals |-> deals, companies |-> companies, filings |-> filings,
   alerts |-> alerts, watchlist |-> watchlist]

SetDb(db) ==
  /\ tables' = db.tables
  /\ deals' = db.deals
  /\ companies' = db.companies
  /\ filings' = db.filings
  /\ alerts' = db.alerts
  /\ watchlist' = db.watchlist

init_database ==
  /\ SetDb(InitDatabase(Db))
  /\ ret' = [op |-> "init_database", before |-> Db]
  /\ UNCHANGED <<sessions, nextId, now>>

(***************************************************************************)
(* upload_file_interface: the file is processed; when a batch with rows   *)
(* comes back the Import button imports it.                                 *)
(***************************************************************************)
upload_file_interface(uploaded_file, data_source) ==
  \E df \in {process_uploaded_file(uploaded_file, data_source, now)} :
    IF df = NULL \/ Len(uploaded_file.rows) = 0
      THEN /\ ret' = [op |-> "upload", data_source |-> data_source,
                      uploaded_file |-> uploaded_file, df |-> df, imported |-> FALSE,
                      before |-> Db]
           /\ UNCHANGED <<tables, deals, companies, filings, alerts, watchlist, sessions,
                          nextId, now>>
      ELSE \E result \in {import_to_database(Db, Get(df), data_source)} :
             /\ SetDb(result.db)
             /\ ret' = [op |-> "upload", data_source |-> data_source,
                        uploaded_file |-> uploaded_file, df |-> df, imported |-> TRUE,
                        success |-> result.success, records |-> result.records,
                        before |-> Db]
             /\ UNCHANGED <<sessions, nextId, now>>

manual_deal_entry(target_name, deal_value) ==
  \E saved \in {save_manual_entry(Db, deal_data(target_name, deal_value, now), "deals")} :
    /\ SetDb(saved.db)
    /\ ret' = [op |-> "manual_deal_entry", val |-> saved.val, before |-> Db]
    /\ UNCHANGED <<sessions, nextId, now>>

manual_company_entry(company_name) ==
  \E saved \in {save_manual_entry(Db, company_data(company_name, now), "companies")} :
    /\ SetDb(saved.db)
    /\ ret' = [op |-> "manual_company_entry", val |-> saved.val, before |-> Db]
    /\ UNCHANGED <<sessions, nextId, now>>

test_sample_data ==
  \E inserted \in {InsertOrReplace(deals, sample_deal(now))} :
    /\ deals' = DeleteDeal(inserted, "TEST001")
    /\ ret' = [op |-> "test_sample_data", inserted |-> inserted,
               df |-> SelectDeal(inserted, "TEST001"), before |-> Db]
    /\ UNCHANGED <<tables, companies, filings, alerts, watchlist, sessions, nextId, now>>

add_to_watchlist(entity_type, entity_name, notes) ==
  /\ watchlist' = Append(watchlist,
                         [user_id |-> "demo_user", entity_type |-> entity_type,
                          entity_name |-> entity_name, notes |-> notes, added_date |-> now])
  /\ ret' = [op |-> "add_to_watchlist", val |-> TRUE, before |-> Db]
  /\ UNCHANGED <<tables, deals, companies, filings, alerts, sessions, nextId, now>>

(***************************************************************************)
(* apply_company_tags run by one session from start to commit, and the    *)
(* same function run by two sessions at once, each on one company: the    *)
(* SELECT and the UPDATE with its commit are the steps that interleave    *)
(* (each session has its own connection and nothing is locked between     *)
(* its two statements).                                                    *)
(***************************************************************************)
apply_company_tags(company_names, tag) ==
  /\ companies' = ApplyCompanyTags(companies, company_names, tag)
  /\ ret' = [op |-> "apply_company_tags", company_names |-> company_names, tag |-> tag,
             before |-> companies, error |-> FALSE]
  /\ UNCHANGED <<tables, filings, watchlist, sessions, deals, alerts, nextId, now>>

SelectTags(s, company_name, tag) ==
  /\ sessions[s].pc = "idle"
  /\ sessions' = [sessions EXCEPT ![s] =
                    [pc |-> "update", company_name |-> company_name, tag |-> tag,
                     existing_tags |-> FetchOne(companies, company_name)]]
  /\ ret' = [op |-> "select_tags", session |-> s, before |-> companies]
  /\ UNCHANGED <<tables, filings, watchlist, companies, deals, alerts, nextId, now>>

UpdateTagsAndCommit(s) ==
  /\ sessions[s].pc = "update"
  /\ companies' = UpdateTags(companies, sessions[s].company_name,
                             NewTags(sessions[s].existing_tags, sessions[s].tag))
  /\ sessions' = [sessions EXCEPT ![s].pc = "done"]
  /\ ret' = [op |-> "update_tags", session |-> s, before |-> companies]
  /\ UNCHANGED <<tables, filings, watchlist, deals, alerts, nextId, now>>

(***************************************************************************)
(* Spec: the alert manager at work.  Alerts are created, tested, run and  *)
(* deleted over a deals table that the ingestion module filled; storage   *)
(* works.  One deal is recent on every day of the model, the other turns  *)
(* older than 30 days when the day advances.                               *)
(***************************************************************************)
StoredDealTables ==
  DealTablesOver({<<Some(<<"A", "b">>), NULL>>, <<Some(<<"c">>), NULL>>},
                 {Some(75)}, {Some(Technology)}, {Some(0), Some(0 - RecencyDays)},
                 MaxDeals)

CreateInput(name, keywords, filters, email) ==
  [name |-> name, keywords |-> keywords, filters |-> filters, email |-> email]

CreateInputs ==
  {CreateInput("n1", <<KwA>>, Filters(<<>>, 0, NULL, Some(<<"e">>)), FALSE),
   CreateInput("n1", <<KwC>>, Filters(<<>>, 0, NULL, Some(<<"e">>)), TRUE),
   CreateInput("n2", <<KwA>>, Filters(<<>>, 0, NULL, NULL), TRUE),
   CreateInput("n2", <<KwC>>, Filters(<<>>, 0, NULL, Some(<<>>)), TRUE),
   CreateInput("n2", <<KwA>>, Filters(<<>>, 100, Some(50), Some(<<"e">>)), TRUE)}

Init ==
  /\ deals \in StoredDealTables
  /\ alerts = <<>>
  /\ nextId = 1
  /\ now = 0
  /\ ret = [op |-> "init"]
  /\ companies = <<>>
  /\ sessions = NoSessions
  /\ tables = CreatedTables
  /\ filings = <<>>
  /\ watchlist = <<>>

CreateAlert ==
  \E in \in CreateInputs :
    create_alert("u1", in.name, in.keywords, in.filters, in.email)

DeleteAlert == \E i \in 1..Len(alerts) : delete_alert(alerts[i].id)

TestStoredAlert ==
  \E i \in 1..Len(alerts) :
    /\ ~AlertOfRaises(alerts[i])
    /\ test_alert([AlertOf(alerts[i]) EXCEPT !.last_triggered =
                     alerts[i].last_triggered], FALSE)

SearchDeals ==
  \E in \in {<<<<KwA>>, NULL>>, <<<<KwC>>, Some(NoFilters)>>} :
    search_deals_by_keywords(in[1], in[2])

RunAllAlerts == run_all_alerts(NoFaults)

Next ==
  \/ CreateAlert
  \/ DeleteAlert
  \/ TestStoredAlert
  \/ SearchDeals
  \/ RunAllAlerts
  \/ Tick

Spec == Init /\ [][Next]_vars

(***************************************************************************)
(* SpecMatch: test_alert and search_deals_by_keywords as functions of     *)
(* their inputs.  The deals table, the day and the alert are drawn from   *)
(* the domains below; the alert keywords include a keyword with a quote,  *)
(* a LIKE wildcard, and a keyword that closes the template's literal and  *)
(* parenthesis ("%') OR ('a' LIKE '%a").  Every deal is announced on day  *)
(* 0: 30 days before the first day modelled, 31 before the second.        *)
(***************************************************************************)
MatchDealTables ==
  DealTablesOver({<<Some(<<"A", "b">>), NULL>>, <<Some(<<"c">>), Some(<<"b">>)>>,
                  <<NULL, Some(<<"a">>)>>},
                 {NULL, Some(50), Some(100)},
                 {Some(Technology), Some(Healthcare)}, {Some(0)}, MaxDeals)

MatchKeywords ==
  {<<KwA>>, <<KwB>>, <<KwAb, KwC>>, <<KwWild>>, <<KwQuote>>, <<KwBreakout>>, <<>>}

MatchFilters ==
  {Filters(industries, min, max, NULL) :
     industries \in {<<>>, <<Technology>>}, min \in {0, 100},
     max \in {NULL, Some(0), Some(50)}}

MatchAlerts ==
  {[id |-> 1, user_id |-> "u1", alert_name |-> "n1", keywords |-> keywords,
    filters |-> filters, email_notifications |-> FALSE, created_date |-> 0,
    last_triggered |-> NULL] :
     keywords \in MatchKeywords, filters \in MatchFilters}

InitMatch ==
  /\ deals \in MatchDealTables
  /\ alerts = <<>>
  /\ nextId = 1
  /\ now \in {RecencyDays, RecencyDays + 1}
  /\ ret = [op |-> "init"]
  /\ companies = <<>>
  /\ sessions = NoSessions
  /\ tables = CreatedTables
  /\ filings = <<>>
  /\ watchlist = <<>>

TestAnyAlert ==
  /\ ret.op = "init"
  /\ \E alert \in MatchAlerts : test_alert(alert, FALSE)

SearchAnyDeals ==
  /\ ret.op = "init"
  /\ \E keywords \in MatchKeywords,
        filters \in {NULL, Some(Filters(<<Technology>>, 100, Some(0), NULL))} :
       search_deals_by_keywords(keywords, filters)

NextMatch ==
  \/ TestAnyAlert
  \/ SearchAnyDeals

SpecMatch == InitMatch /\ [][NextMatch]_vars

(***************************************************************************)
(* SpecFaults: run_all_alerts and test_alert over a data file that the    *)
(* program did not write alone and a storage that can fail.  The alerts   *)
(* table can hold a row whose keywords or filters text is not JSON; the   *)
(* read of the alerts table, the query of any alert and the update of     *)
(* any alert can raise a storage error.                                    *)
(***************************************************************************)
NotJson(value) == [json |-> FALSE, value |-> value]

StoredRow(in, corruptKeywords, corruptFilters) ==
  [user_id |-> "u1", alert_name |-> in.name,
   keywords |-> IF corruptKeywords THEN NotJson(<<>>) ELSE json_dumps(in.keywords),
   filters |-> IF corruptFilters THEN NotJson(NoFilters) ELSE json_dumps(in.filters),
   email_notifications |-> StoredBool(in.email), created_date |-> 0,
   last_triggered |-> NULL]

FaultRows ==
  {StoredRow(CreateInput("n1", <<KwA>>, Filters(<<>>, 0, NULL, Some(<<"e">>)), TRUE),
             FALSE, FALSE),
   StoredRow(CreateInput("n2", <<KwC>>, NoFilters, FALSE), FALSE, FALSE),
   StoredRow(CreateInput("n3", <<KwA>>, NoFilters, FALSE), TRUE, FALSE),
   StoredRow(CreateInput("n4", <<KwA>>, NoFilters, FALSE), FALSE, TRUE)}

WithId(row, id) ==
  [id |-> id, user_id |-> row.user_id, alert_name |-> row.alert_name,
   keywords |-> row.keywords, filters |-> row.filters,
   email_notifications |-> row.email_notifications,
   created_date |-> row.created_date, last_triggered |-> row.last_triggered]

FaultAlertTables ==
  UNION {{[i \in 1..n |-> WithId(f[i], i)] : f \in [1..n -> FaultRows]} :
         n \in 0..MaxAlerts}

InitFaults ==
  /\ deals \in StoredDealTables
  /\ alerts \in FaultAlertTables
  /\ nextId = Len(alerts) + 1
  /\ now = 0
  /\ ret = [op |-> "init"]
  /\ companies = <<>>
  /\ sessions = NoSessions
  /\ tables = CreatedTables
  /\ filings = <<>>
  /\ watchlist = <<>>

AlertIds == {alerts[i].id : i \in 1..Len(alerts)}

FaultPatterns ==
  {NoFaults, [read |-> TRUE, query |-> {}, update |-> {}]}
    \cup {[read |-> FALSE, query |-> {id}, update |-> {}] : id \in AlertIds}
    \cup {[read |-> FALSE, query |-> {}, update |-> {id}] : id \in AlertIds}

RunAllAlertsFaulty == \E faults \in FaultPatterns : run_all_alerts(faults)

TestStoredAlertFaulty ==
  \E i \in 1..Len(alerts), dbFails \in BOOLEAN :
    /\ ~AlertOfRaises(alerts[i])
    /\ test_alert([AlertOf(alerts[i]) EXCEPT !.last_triggered =
                     alerts[i].last_triggered], dbFails)

NextFaults ==
  \/ RunAllAlertsFaulty
  \/ TestStoredAlertFaulty
  \/ Tick

SpecFaults == InitFaults /\ [][NextFaults]_vars

(***************************************************************************)
(* SpecCreate: the two ways an alert gets stored, the form and a direct   *)
(* call of create_alert, with keyword lists that may be empty.            *)
(***************************************************************************)
DirectInputs ==
  {CreateInput("n1", <<KwA>>, NoFilters, FALSE),
   CreateInput("n1", <<>>, NoFilters, FALSE),
   CreateInput("n2", <<KwC>>, Filters(<<>>, 0, NULL, Some(<<"e">>)), TRUE)}

FormInputs ==
  {CreateInput("n1", <<KwA>>, Filters(<<>>, 0, Some(1000), Some(<<"e">>)), TRUE),
   CreateInput("n2", <<KwC>>, Filters(<<Technology>>, 0, Some(1000), Some(<<"e">>)), FALSE),
   CreateInput("n1", <<>>, Filters(<<>>, 0, Some(1000), Some(<<"e">>)), FALSE),
   CreateInput("", <<KwA>>, Filters(<<>>, 0, Some(1000), Some(<<"e">>)), FALSE)}

CreateAlertDirect ==
  \E in \in DirectInputs :
    create_alert("u1", in.name, in.keywords, in.filters, in.email)

CreateAlertForm ==
  \E in \in FormInputs :
    create_alert_interface(in.name, in.keywords, in.filters.industries,
                           in.filters.min_deal_size, Get(in.filters.max_deal_size),
                           in.email, Get(in.filters.email_address))

NextCreate ==
  \/ CreateAlertDirect
  \/ CreateAlertForm
  \/ DeleteAlert
  \/ TestStoredAlert

SpecCreate == Init /\ [][NextCreate]_vars

(***************************************************************************)
(* SpecTags: the companies table as ingestion leaves it (names repeat,    *)
(* tags absent, empty or set), tagged by whole calls and by two           *)
(* concurrent sessions.                                                    *)
(***************************************************************************)
TagP == <<"p">>
TagW == <<"w">>
TagPP == <<"p", ",", "p">>

CompanyNames == {"c", "d"}

Company(id, company_name, tags) ==
  [id |-> id, company_name |-> company_name, tags |-> tags]

CompanyTables ==
  UNION {{[i \in 1..n |-> Company(i, f[i][1], f[i][2])] :
            f \in [1..n -> CompanyNames \X {NULL, Some(<<>>), Some(<<"x">>), Some(TagP)}]} :
         n \in 0..MaxCompanies}

InitTags ==
  /\ deals = <<>>
  /\ alerts = <<>>
  /\ nextId = 1
  /\ now = 0
  /\ ret = [op |-> "start"]
  /\ companies \in CompanyTables
  /\ sessions = NoSessions
  /\ tables = CreatedTables
  /\ filings = <<>>
  /\ watchlist = <<>>

ApplyTags ==
  /\ \A i \in 1..Len(companies) :
       companies[i].tags # NULL => Len(Get(companies[i].tags)) <= MaxTagLen
  /\ \E company_names \in {<<"c">>, <<"c", "d">>}, tag \in {TagP, TagW, TagPP} :
       apply_company_tags(company_names, tag)

SessionSelect ==
  \E s \in Sessions, tag \in {TagP, TagW} : SelectTags(s, "c", tag)

SessionUpdate == \E s \in Sessions : UpdateTagsAndCommit(s)

NextTags == ApplyTags

SpecTags == InitTags /\ [][NextTags]_vars

NextSessions ==
  \/ SessionSelect
  \/ SessionUpdate

SpecSessions == InitTags /\ [][NextSessions]_vars

(***************************************************************************)
(* SpecIngest: the validator, the template lookup and the monetary        *)
(* clean-up, each applied once to a batch, a source name or a cell.       *)
(***************************************************************************)
BatchColumns ==
  SUBSET {"company_name", "ticker", "index_name", "deal_value", "weight"}

CellSequences == UNION {[1..n -> {NULL, Some(1)}] : n \in 0..MaxRows}

Batches == {[columns |-> columns, cells |-> cells] :
              columns \in BatchColumns, cells \in CellSequences}

SourceNames == {"index_constituents", "mergermarket", "custom"}

MoneyAlphabet == {"$", ",", ".", "0", "1", "n"}

MoneyStrings == UNION {[1..n -> MoneyAlphabet] : n \in 0..MaxMoneyLen}

CapAlphabet == {"$", ".", "0", "1", "B", "M"}

CapStrings == UNION {[1..n -> CapAlphabet] : n \in 0..MaxCapLen}

InitIngest ==
  /\ deals = <<>>
  /\ alerts = <<>>
  /\ nextId = 1
  /\ now = 0
  /\ ret = [op |-> "start"]
  /\ companies = <<>>
  /\ sessions = NoSessions
  /\ tables = CreatedTables
  /\ filings = <<>>
  /\ watchlist = <<>>

ValidateBatch ==
  /\ ret.op = "start"
  /\ \E df \in Batches, data_source \in SourceNames :
       ret' = [op |-> "validate_data_schema", df |-> df, data_source |-> data_source,
               val |-> validate_data_schema(df, data_source), raised |-> FALSE]
  /\ UNCHANGED <<tables, filings, watchlist, companies, sessions, deals, alerts, nextId, now>>

GetTemplate ==
  /\ ret.op = "start"
  /\ \E data_source \in SourceNames \cup DOMAIN data_schemas :
       ret' = [op |-> "get_data_template", data_source |-> data_source,
               val |-> get_data_template(data_source), raised |-> FALSE]
  /\ UNCHANGED <<tables, filings, watchlist, companies, sessions, deals, alerts, nextId, now>>

CleanCell ==
  /\ ret.op = "start"
  /\ \E cell \in MoneyStrings :
       ret' = [op |-> "clean_deal_value", cell |-> cell, val |-> CleanDealValue(cell),
               raised |-> FALSE]
  /\ UNCHANGED <<tables, filings, watchlist, companies, sessions, deals, alerts, nextId, now>>

CleanCap ==
  /\ ret.op = "start"
  /\ \E cell \in CapStrings :
       ret' = [op |-> "clean_market_cap", cell |-> cell, val |-> CleanMarketCap(cell),
               raised |-> FALSE]
  /\ UNCHANGED <<tables, filings, watchlist, companies, sessions, deals, alerts, nextId, now>>

NextIngest ==
  \/ ValidateBatch
  \/ GetTemplate
  \/ CleanCell
  \/ CleanCap

SpecIngest == InitIngest /\ [][NextIngest]_vars

(***************************************************************************)
(* SpecExtract: the two extractors applied to a content cell.  A text is  *)
(* up to MaxWords words separated by blanks.                               *)
(***************************************************************************)
Words ==
  { <<"I", "P", "O">>,
    <<"i", "p", "o">>,
    <<"I", "p", "o">>,
    <<"f", "o", "r", "b", "i", "d">>,
    <<"S", "E", "C", " ", "i", "n", "v", "e", "s", "t", "i", "g", "a", "t", "i", "o", "n">>,
    <<"s", "e", "c", " ", "i", "n", "v", "e", "s", "t", "i", "g", "a", "t", "i", "o", "n">>,
    <<"F", "r", "a", "u", "d">>,
    <<"r", "e", "f", "i", "n", "e", "d">>,
    <<"a", "u", "d", "i", "t">>,
    <<"s", "p", "i", "n", "-", "o", "f", "f">>,
    <<"c", "a", "l", "m">> }

Texts == {Join(ws, <<" ">>) : ws \in UNION {[1..n -> Words] : n \in 0..MaxWords}}

ContentCells == {TextCell(text) : text \in Texts} \cup {NullCell, NumberCell}

ExtractRedFlags ==
  /\ ret.op = "start"
  /\ \E cell \in ContentCells :
       ret' = [op |-> "extract_red_flags", vocabulary |-> red_flag_keywords, cell |-> cell,
               out |-> extract_red_flags(cell)]
  /\ UNCHANGED <<tables, filings, watchlist, companies, sessions, deals, alerts, nextId, now>>

ExtractDealMentions ==
  /\ ret.op = "start"
  /\ \E cell \in ContentCells :
       ret' = [op |-> "extract_deal_mentions", vocabulary |-> deal_keywords, cell |-> cell,
               out |-> extract_deal_mentions(cell)]
  /\ UNCHANGED <<tables, filings, watchlist, companies, sessions, deals, alerts, nextId, now>>

NextExtract ==
  \/ ExtractRedFlags
  \/ ExtractDealMentions

SpecExtract == InitIngest /\ [][NextExtract]_vars

(***************************************************************************)
(* SpecAlerts: two users create and delete alerts, the batch runs over    *)
(* one recent deal, time passes, and any user, one without alerts         *)
(* included, lists their alerts.                                            *)
(***************************************************************************)
Users == {"u1", "u2"}

InitAlerts ==
  /\ deals = <<Deal(1, Some(<<"a">>), NULL, Some(75), Some(Technology), Some(0))>>
  /\ alerts = <<>>
  /\ nextId = 1
  /\ now = 0
  /\ ret = [op |-> "init"]
  /\ companies = <<>>
  /\ sessions = NoSessions
  /\ tables = CreatedTables
  /\ filings = <<>>
  /\ watchlist = <<>>

CreateForUser ==
  \E user_id \in Users :
    \E in \in {CreateInput("n1", <<KwA>>, Filters(<<>>, 0, NULL, NULL), FALSE),
               CreateInput("n2", <<KwC, KwB>>, Filters(<<Technology>>, 100, Some(50), Some(<<"e">>)),
                           TRUE)} :
      create_alert(user_id, in.name, in.keywords, in.filters, in.email)

ListAlerts == \E user_id \in Users \cup {"test_user"} : get_user_alerts(user_id)

NextAlerts ==
  \/ CreateForUser
  \/ DeleteAlert
  \/ RunAllAlerts
  \/ ListAlerts
  \/ Tick

SpecAlerts == InitAlerts /\ [][NextAlerts]_vars

(***************************************************************************)
(* SpecStore: a database file without tables, or one set up earlier and   *)
(* holding a sample company as deploy.py writes them; the application is  *)
(* constructed (init_database) and then uploads, manual entries, the      *)
(* sample-data test, watchlist additions, alert creation and further      *)
(* constructions follow in any order.  An upload carries exactly the      *)
(* required columns of its source, or one column for a custom source.     *)
(***************************************************************************)
UploadSources ==
  {"mergermarket", "preqin", "sec_filings", "index_constituents", "press_releases", "custom"}

UploadColumns(data_source) ==
  IF data_source \in DOMAIN data_schemas
    THEN SetOf(data_schemas[data_source].required_columns)
    ELSE {"name"}

RawRow(columns, deal_id, amount, date, content) ==
  [c \in columns |->
     IF c = "deal_id" THEN deal_id
     ELSE IF c \in {"deal_value", "investment_amount"} THEN amount
     ELSE IF c \in {"announcement_date", "investment_date", "filing_date", "date"} THEN date
     ELSE IF c = "content" THEN content
     ELSE Some("x")]

RawRows(columns) ==
  IF "deal_id" \in columns
    THEN {RawRow(columns, Some("D1"), <<"1">>, "2024-01-05", NullCell),
          RawRow(columns, Some("D1"), <<"-", "1">>, "soon", NullCell),
          RawRow(columns, Some("TEST001"), <<"n">>, "2024-01-05", NullCell)}
  ELSE IF "content" \in columns
    THEN {RawRow(columns, NULL, <<>>, "2024-01-05",
                 TextCell(<<"F", "r", "a", "u", "d", " ", "b", "i", "d">>)),
          RawRow(columns, NULL, <<>>, "soon", NullCell),
          RawRow(columns, NULL, <<>>, "2024-01-05", NumberCell)}
  ELSE {RawRow(columns, NULL, <<"1">>, "2024-01-05", NullCell),
        RawRow(columns, NULL, <<"-", "1">>, "soon", NullCell)}

Uploads(data_source) ==
  {[columns |-> UploadColumns(data_source), rows |-> rows] :
     rows \in UNION {[1..n -> RawRows(UploadColumns(data_source))] : n \in 1..MaxUploadRows}}

SampleCompany ==
  [c \in {"company_name", "ticker", "industry", "geography", "market_cap", "revenue",
          "employees", "index_membership", "tags", "watchlist"} |->
     IF c = "tags" THEN Some(<<>>) ELSE Some("x")]

InitStore ==
  /\ deals = <<>>
  /\ alerts = <<>>
  /\ nextId = 1
  /\ now = 0
  /\ ret = [op |-> "start"]
  /\ sessions = NoSessions
  /\ filings = <<>>
  /\ watchlist = <<>>
  /\ \/ tables = NoTables /\ companies = <<>>
     \/ tables = CreatedTables /\ companies = <<SampleCompany>>

Constructed == DOMAIN CreatedTables \subseteq DOMAIN tables

Construct == init_database

Upload ==
  /\ Constructed
  /\ \E data_source \in UploadSources : \E uploaded_file \in Uploads(data_source) :
       /\ Len(deals) + Len(uploaded_file.rows) <= MaxStored
       /\ Len(filings) + Len(uploaded_file.rows) <= MaxStored
       /\ upload_file_interface(uploaded_file, data_source)

ManualDeal ==
  /\ Constructed
  /\ Len(deals) < MaxStored
  /\ \E deal_value \in {Number(FALSE, <<>>, <<>>), Number(FALSE, <<"1">>, <<>>)} :
       manual_deal_entry("t", deal_value)

ManualCompany == Constructed /\ manual_company_entry("c")

TestSampleData == Constructed /\ test_sample_data

AddToWatchlist ==
  /\ Constructed
  /\ Len(watchlist) < MaxWatchlist
  /\ add_to_watchlist("Company", "c", "")

CreateStoredAlert ==
  /\ Constructed
  /\ alerts = <<>>
  /\ create_alert("u1", "n1", <<KwA>>, NoFilters, FALSE)

NextStore ==
  \/ Construct
  \/ Upload
  \/ ManualDeal
  \/ ManualCompany
  \/ TestSampleData
  \/ AddToWatchlist
  \/ CreateStoredAlert

SpecStore == InitStore /\ [][NextStore]_vars

(***************************************************************************)
(* Vocabulary of the properties, stated without the query machinery:      *)
(* occurrence of a keyword in a name by comparing slices, with and        *)
(* without folding ASCII case; the filters read off the alert.             *)
(***************************************************************************)
AlphaNum == {"a", "b", "c", "A", "B", "C"}

PlainKeyword(k) == k # <<>> /\ \A i \in 1..Len(k) : k[i] \in AlphaNum
PlainKeywords(ks) == ks # <<>> /\ \A i \in 1..Len(ks) : PlainKeyword(ks[i])

AsciiFold(c) ==
  IF c = "A" THEN "a" ELSE IF c = "B" THEN "b" ELSE IF c = "C" THEN "c" ELSE c

Folded(s) == [i \in 1..Len(s) |-> AsciiFold(s[i])]

OccursExact(k, name) ==
  /\ name # NULL
  /\ \E i \in 0..(Len(Get(name)) - Len(k)) : SubSeq(Get(name), i + 1, i + Len(k)) = k

OccursFolded(k, name) ==
  /\ name # NULL
  /\ \E i \in 0..(Len(Get(name)) - Len(k)) :
       Folded(SubSeq(Get(name), i + 1, i + Len(k))) = Folded(k)

KeywordHitExact(ks, d) ==
  \E i \in 1..Len(ks) :
    OccursExact(ks[i], d.target_name) \/ OccursExact(ks[i], d.acquirer_name)

KeywordHit(ks, d) ==
  \E i \in 1..Len(ks) :
    OccursFolded(ks[i], d.target_name) \/ OccursFolded(ks[i], d.acquirer_name)

IndustryOk(f, d) ==
  f.industries = <<>>
    \/ (d.industry # NULL /\ \E i \in 1..Len(f.industries) : f.industries[i] = Get(d.industry))

MinOk(f, d) ==
  f.min_deal_size = 0 \/ (d.deal_value # NULL /\ Get(d.deal_value) >= f.min_deal_size)

MaxOk(f, d) ==
  f.max_deal_size = NULL \/ Get(f.max_deal_size) = 0
    \/ (d.deal_value # NULL /\ Get(d.deal_value) <= Get(f.max_deal_size))

Satisfies(alert, d) ==
  /\ KeywordHit(alert.keywords, d)
  /\ IndustryOk(alert.filters, d)
  /\ MinOk(alert.filters, d)
  /\ MaxOk(alert.filters, d)

Recent(d, today) ==
  d.announcement_date # NULL /\ Get(d.announcement_date) >= today - RecencyDays

IdsOf(rows) == {rows[i].id : i \in 1..Len(rows)}
NoDuplicates(rows) == Cardinality(IdsOf(rows)) = Len(rows)
RowsOf(table) == {table[i] : i \in 1..Len(table)}

Tested == ret.op = "test_alert"
Ran == ret.op = "run_all_alerts"

(***************************************************************************)
(* C1.  Exactness of test_alert for plain keywords, no filters and        *)
(* recent deals.                                                           *)
(***************************************************************************)
C1_Pre ==
  /\ Tested
  /\ PlainKeywords(ret.alert.keywords)
  /\ ret.alert.filters.industries = <<>>
  /\ ret.alert.filters.min_deal_size = 0
  /\ ret.alert.filters.max_deal_size = NULL
  /\ \A d \in RowsOf(deals) : Recent(d, now)

\* C1 as claimed: under C1_Pre the result is exactly the deals in which some
\* keyword occurs in the same letter case in target_name or acquirer_name.
C1_Original ==
  C1_Pre =>
    /\ IdsOf(ret.val) = {d.id : d \in {x \in RowsOf(deals) : KeywordHitExact(ret.alert.keywords, x)}}
    /\ NoDuplicates(ret.val)

\* C1 as amended: under C1_Pre the result is exactly the deals in which some
\* keyword occurs, letters compared without regard to ASCII case, in
\* target_name or acquirer_name; each such deal once.
C1_Amended ==
  C1_Pre =>
    /\ IdsOf(ret.val) = {d.id : d \in {x \in RowsOf(deals) : KeywordHit(ret.alert.keywords, x)}}
    /\ NoDuplicates(ret.val)

C1_Witness ==
  /\ C1_Pre
  /\ Len(deals) = 2
  /\ Len(ret.alert.keywords) = 1
  /\ Len(ret.val) = 1
  /\ OccursFolded(ret.alert.keywords[1], ret.val[1].target_name)
  /\ ~OccursExact(ret.alert.keywords[1], ret.val[1].target_name)
  /\ \E d \in RowsOf(deals) : d.id # ret.val[1].id /\ ~KeywordHit(ret.alert.keywords, d)

(***************************************************************************)
(* C2.  run_all_alerts and the 30-day bound.                               *)
(***************************************************************************)
EvalsOf(id) == {k \in 1..Len(ret.evals) : ret.evals[k].id = id}
MatchesOf(id) == ret.evals[CHOOSE k \in EvalsOf(id) : TRUE].matches

C3_Claim ==
  (Tested /\ PlainKeywords(ret.alert.keywords) /\ ret.alert.filters.max_deal_size # NULL) =>
    \A d \in RowsOf(ret.val) :
      d.deal_value # NULL => Get(d.deal_value) <= Get(ret.alert.filters.max_deal_size)

\* The upper bound holds when max_deal_size is present and not 0 (plain keywords).
C3_NonZeroBound ==
  (Tested /\ PlainKeywords(ret.alert.keywords) /\ TruthyNum(ret.alert.filters.max_deal_size)) =>
    \A d \in RowsOf(ret.val) :
      d.deal_value # NULL /\ Get(d.deal_value) <= Get(ret.alert.filters.max_deal_size)

(***************************************************************************)
(* C4.  Industry and lower-bound filters as a conjunction.                 *)
(***************************************************************************)
FiltersRespected(f, rows) ==
  \A d \in RowsOf(rows) :
    /\ f.industries # <<>> =>
         (d.industry # NULL /\ \E i \in 1..Len(f.industries) : f.industries[i] = Get(d.industry))
    /\ f.min_deal_size > 0 =>
         (d.deal_value # NULL /\ Get(d.deal_value) >= f.min_deal_size)

\* C4 as claimed: every deal test_alert returns has its industry in the
\* alert's non-empty industry list and its value at least a positive
\* min_deal_size, whatever the keywords.
C4_Claim == Tested => FiltersRespected(ret.alert.filters, ret.val)

\* The same for keywords without query syntax in them.
C4_PlainKeywords ==
  (Tested /\ PlainKeywords(ret.alert.keywords)) => FiltersRespected(ret.alert.filters, ret.val)

(***************************************************************************)
(* C5.  last_triggered after a run.                                        *)
(***************************************************************************)
\* C5: after run_all_alerts every stored alert with a non-empty match set in
\* the run has last_triggered equal to the time of the run, and every alert
\* with an empty match set has the last_triggered it had before the run.
C5_LastTriggered ==
  (Ran /\ ~ret.error) =>
    /\ Len(alerts) = Len(ret.before)
    /\ \A i \in 1..Len(alerts) :
         /\ Cardinality(EvalsOf(ret.before[i].id)) = 1
         /\ MatchesOf(ret.before[i].id) # <<>> =>
              alerts[i].last_triggered = Some(ret.today)
         /\ MatchesOf(ret.before[i].id) = <<>> =>
              alerts[i].last_triggered = ret.before[i].last_triggered

C5_Witness ==
  /\ Ran /\ ~ret.error
  /\ \E i, j \in 1..Len(alerts) :
       /\ MatchesOf(ret.before[i].id) # <<>>
       /\ ret.before[i].last_triggered # Some(ret.today)
       /\ alerts[i].last_triggered = Some(ret.today)
       /\ MatchesOf(ret.before[j].id) = <<>>
       /\ alerts[j].last_triggered # NULL
       /\ alerts[j].last_triggered # Some(ret.today)

(***************************************************************************)
(* C6.  Notification payloads of a run.                                    *)
(***************************************************************************)
PayloadsFor(id) == {k \in 1..Len(ret.emails) : ret.emails[k].alert_id = id}

\* C6: in a run a payload is produced for a stored alert exactly when its
\* match set is non-empty, its email_notifications flag is set and its
\* filters carry a non-empty email_address; never more than one, and it
\* goes to that address.
C6_Notification ==
  Ran =>
    /\ \A k \in 1..Len(ret.emails) :
         \E row \in RowsOf(ret.before) : row.id = ret.emails[k].alert_id
    /\ \A row \in RowsOf(ret.before) :
         LET address == json_loads(row.filters).email_address IN
           /\ Cardinality(PayloadsFor(row.id)) <= 1
           /\ PayloadsFor(row.id) # {} <=>
                /\ EvalsOf(row.id) # {}
                /\ MatchesOf(row.id) # <<>>
                /\ row.email_notifications = 1
                /\ address # NULL
                /\ Get(address) # <<>>
           /\ \A k \in PayloadsFor(row.id) : ret.emails[k].to = Get(address)

C6_Witness ==
  /\ Ran
  /\ \E row \in RowsOf(ret.before) : PayloadsFor(row.id) # {}
  /\ \E row \in RowsOf(ret.before) :
       /\ MatchesOf(row.id) # <<>>
       /\ PayloadsFor(row.id) = {}
       /\ row.email_notifications = 0
       /\ TruthyText(json_loads(row.filters).email_address)

(***************************************************************************)
(* C7.  The mapping run_all_alerts returns.                                *)
(***************************************************************************)
RECURSIVE TotalMatches(_)
TotalMatches(evals) ==
  IF evals = <<>> THEN 0 ELSE Len(Head(evals).matches) + TotalMatches(Tail(evals))

RECURSIVE TotalOver(_, _)
TotalOver(map, names) ==
  IF names = {} THEN 0
  ELSE LET name == CHOOSE x \in names : TRUE
       IN Len(map[name]) + TotalOver(map, names \ {name})

\* C7 as claimed: the mapping a run returns has one entry per stored alert,
\* holds every alert's own match set under its name, and its matches add up
\* to the matches of all stored alerts.
C7_Claim ==
  (Ran /\ ~ret.error) =>
    /\ Cardinality(DOMAIN ret.val) = Len(ret.before)
    /\ \A row \in RowsOf(ret.before) :
         row.alert_name \in DOMAIN ret.val /\ ret.val[row.alert_name] = MatchesOf(row.id)
    /\ TotalOver(ret.val, DOMAIN ret.val) = TotalMatches(ret.evals)

\* The mapping holds, under each name, the match set of the last stored alert
\* of that name.
C7_LastOfName ==
  (Ran /\ ~ret.error) =>
    /\ DOMAIN ret.val = {row.alert_name : row \in RowsOf(ret.before)}
    /\ \A i \in 1..Len(ret.before) :
         (\A j \in (i + 1)..Len(ret.before) :
            ret.before[j].alert_name # ret.before[i].alert_name)
           => ret.val[ret.before[i].alert_name] = MatchesOf(ret.before[i].id)

(***************************************************************************)
(* C8.  Failure isolation in a run.                                        *)
(***************************************************************************)
\* C8 as claimed: when the alerts table could be read, every stored alert
\* that itself decodes is evaluated, has its entry in the returned mapping
\* and, on a non-empty match set with a working update, its last_triggered
\* set, whatever happens to the other alerts.
C8_Claim ==
  (Ran /\ ~ret.faults.read) =>
    \A i \in 1..Len(ret.before) :
      ~AlertOfRaises(ret.before[i]) =>
        /\ EvalsOf(ret.before[i].id) # {}
        /\ ret.before[i].alert_name \in DOMAIN ret.val
        /\ (MatchesOf(ret.before[i].id) # <<>> /\ ret.before[i].id \notin ret.faults.update)
             => alerts[i].last_triggered = Some(ret.today)

\* Failures inside test_alert and update_alert_triggered are isolated: with
\* every row decodable, every stored alert is evaluated and is in the mapping.
C8_DecodableRows ==
  (Ran /\ ~ret.faults.read /\ \A row \in RowsOf(ret.before) : ~AlertOfRaises(row)) =>
    \A row \in RowsOf(ret.before) :
      EvalsOf(row.id) # {} /\ row.alert_name \in DOMAIN ret.val

(***************************************************************************)
(* C9.  Frame of the alert matcher.                                        *)
(***************************************************************************)
\* C9: test_alert, search_deals_by_keywords and run_all_alerts leave the
\* deals table as it was; test_alert and the search leave the alerts table
\* as it was; run_all_alerts keeps the alert rows and changes no field of
\* them but last_triggered.
C9_Frame ==
  /\ ret.op \in {"test_alert", "search_deals_by_keywords", "run_all_alerts"} =>
       deals = ret.dealsBefore
  /\ ret.op \in {"test_alert", "search_deals_by_keywords"} => alerts = ret.before
  /\ Ran =>
       /\ Len(alerts) = Len(ret.before)
       /\ \A i \in 1..Len(alerts) :
            [alerts[i] EXCEPT !.last_triggered = ret.before[i].last_triggered]
              = ret.before[i]

C9_Witness ==
  /\ Ran
  /\ deals # <<>>
  /\ \E i \in 1..Len(alerts) : alerts[i].last_triggered # ret.before[i].last_triggered
  /\ \E i \in 1..Len(alerts) : alerts[i] = ret.before[i]

(***************************************************************************)
(* C10.  Inverted deal-size bounds.                                        *)
(***************************************************************************)
Inverted(f) ==
  /\ f.max_deal_size # NULL
  /\ Get(f.max_deal_size) > 0
  /\ f.min_deal_size > Get(f.max_deal_size)

\* C10 as claimed: an alert with min_deal_size > max_deal_size > 0 returns an
\* empty match set over every deals table, whatever its keywords.
C10_Claim == (Tested /\ Inverted(ret.alert.filters)) => ret.val = <<>>

\* The same for keywords without query syntax in them, and without an error.
C10_PlainKeywords ==
  (Tested /\ Inverted(ret.alert.filters) /\ PlainKeywords(ret.alert.keywords)) =>
    ret.val = <<>> /\ ~ret.error

(***************************************************************************)
(* C11.  Letter case in keyword matching.                                  *)
(***************************************************************************)
Searched == ret.op = "search_deals_by_keywords"

OpKeywords == IF Tested THEN ret.alert.keywords ELSE ret.keywords

OpFiltersOk(d) ==
  IF Tested
    THEN /\ IndustryOk(ret.alert.filters, d) /\ MinOk(ret.alert.filters, d)
         /\ MaxOk(ret.alert.filters, d) /\ Recent(d, now)
    ELSE ret.filters = NULL
           \/ (/\ IndustryOk(Get(ret.filters), d) /\ MinOk(Get(ret.filters), d)
               /\ MaxOk(Get(ret.filters), d))

\* C11 as claimed: with plain keywords, test_alert and the keyword search
\* return no deal whose names contain a keyword only in another letter case:
\* every returned deal contains some keyword exactly as typed.
C11_Original ==
  ((Tested \/ Searched) /\ PlainKeywords(OpKeywords)) =>
    \A d \in RowsOf(ret.val) : KeywordHitExact(OpKeywords, d)

\* C11 as amended: keyword matching ignores ASCII letter case: with plain
\* keywords, a deal whose target or acquirer name contains a keyword in any
\* letter case, and that passes the filters of the call, is returned, also
\* when no name contains the keyword as typed; a deal containing no keyword
\* in any letter case is not returned.
C11_Amended ==
  ((Tested \/ Searched) /\ PlainKeywords(OpKeywords)) =>
    /\ \A d \in RowsOf(deals) :
         (KeywordHit(OpKeywords, d) /\ OpFiltersOk(d)) => d.id \in IdsOf(ret.val)
    /\ \A d \in RowsOf(ret.val) : KeywordHit(OpKeywords, d)

C11_Witness ==
  /\ Searched
  /\ PlainKeywords(ret.keywords)
  /\ \E d \in RowsOf(ret.val) :
       KeywordHit(ret.keywords, d) /\ ~KeywordHitExact(ret.keywords, d)

(***************************************************************************)
(* C12.  Stored alerts and empty keyword lists.                            *)
(***************************************************************************)
\* C12 as claimed: no stored alert has an empty keyword list, and a creation
\* request with an empty keyword list, through the form or through
\* create_alert, reports failure.
C12_Claim ==
  /\ \A row \in RowsOf(alerts) : json_loads(row.keywords) # <<>>
  /\ (ret.op \in {"create_alert", "create_alert_interface"} /\ ret.keywords = <<>>)
       => ~ret.success

\* The form alone keeps the invariant: it rejects an empty keyword list and
\* an empty name, leaving the alerts table as it was, and stores what it
\* accepts with a non-empty keyword list.
C12_FormOnly ==
  ret.op = "create_alert_interface" =>
    /\ ret.keywords = <<>> => (~ret.success /\ alerts = ret.before)
    /\ ret.success =>
         \E row \in RowsOf(alerts) :
           row.id = ret.id /\ json_loads(row.keywords) # <<>>

(***************************************************************************)
(* Vocabulary for company tags: the tag list of a row is its tag string   *)
(* split on commas, no tags when the string is absent or empty.           *)
(***************************************************************************)
CommaFree(t) == \A i \in 1..Len(t) : t[i] # ","

TagList(tags) == IF tags = NULL THEN <<>>
                 ELSE IF Get(tags) = <<>> THEN <<>> ELSE SplitComma(Get(tags))

Count(list, x) == Cardinality({i \in 1..Len(list) : list[i] = x})

Applied == ret.op = "apply_company_tags"

NamedIn(names, row) == \E k \in 1..Len(names) : names[k] = row.company_name

RowsNamed(table, name) == {i \in 1..Len(table) : table[i].company_name = name}

FirstNamed(table, name) ==
  table[CHOOSE i \in RowsNamed(table, name) : \A j \in RowsNamed(table, name) : i <= j]

(***************************************************************************)
(* C13.  Idempotence of tagging.                                           *)
(***************************************************************************)
\* C13 as claimed: after applying a comma-free tag, applying it again changes
\* nothing, and the tag occurs exactly once in the tag list of every row of
\* the companies named.
C13_Original ==
  (Applied /\ CommaFree(ret.tag)) =>
    /\ ApplyCompanyTags(companies, ret.company_names, ret.tag) = companies
    /\ \A row \in RowsOf(companies) :
         NamedIn(ret.company_names, row) => Count(TagList(row.tags), ret.tag) = 1

\* C13 as amended: after applying a comma-free tag, applying it again changes
\* nothing, and the tag occurs at least once in the tag list of every row of
\* the companies named; exactly once whenever the tag string the call read
\* for that company (that of its first row) held the tag at most once.
C13_Amended ==
  (Applied /\ CommaFree(ret.tag)) =>
    /\ ApplyCompanyTags(companies, ret.company_names, ret.tag) = companies
    /\ \A row \in RowsOf(companies) :
         NamedIn(ret.company_names, row) =>
           /\ Count(TagList(row.tags), ret.tag) >= 1
           /\ Count(TagList(FirstNamed(ret.before, row.company_name).tags), ret.tag) <= 1
                => Count(TagList(row.tags), ret.tag) = 1

C13_Witness ==
  /\ Applied /\ CommaFree(ret.tag)
  /\ companies = ret.before
  /\ \E row \in RowsOf(companies) :
       /\ NamedIn(ret.company_names, row)
       /\ Len(TagList(row.tags)) >= 2
       /\ Count(TagList(row.tags), ret.tag) = 1

(***************************************************************************)
(* C14.  What a tagging call leaves in the companies table.                *)
(***************************************************************************)
KeepsAndAdds(before, after, t) ==
  /\ Contains(TagList(after.tags), t)
  /\ \A k \in 1..Len(TagList(before.tags)) :
       Contains(TagList(after.tags), TagList(before.tags)[k])

\* C14 as claimed (for a comma-free tag): after apply_company_tags([c], t)
\* every row named c has t in its tag list and every tag it had before, also
\* when several rows share the name; the other rows are unchanged.
C14_Claim ==
  (Applied /\ Len(ret.company_names) = 1 /\ CommaFree(ret.tag)) =>
    /\ Len(companies) = Len(ret.before)
    /\ \A i \in 1..Len(companies) :
         IF ret.before[i].company_name = ret.company_names[1]
           THEN /\ companies[i].company_name = ret.before[i].company_name
                /\ KeepsAndAdds(ret.before[i], companies[i], ret.tag)
           ELSE companies[i] = ret.before[i]

\* The same when only one row has the name.
C14_SingleRow ==
  (/\ Applied /\ Len(ret.company_names) = 1 /\ CommaFree(ret.tag)
   /\ Cardinality(RowsNamed(ret.before, ret.company_names[1])) = 1) =>
    /\ Len(companies) = Len(ret.before)
    /\ \A i \in 1..Len(companies) :
         IF ret.before[i].company_name = ret.company_names[1]
           THEN KeepsAndAdds(ret.before[i], companies[i], ret.tag)
           ELSE companies[i] = ret.before[i]

(***************************************************************************)
(* C15.  Tagging a company that does not exist.                            *)
(***************************************************************************)
\* C15 as claimed: a call that names a company with no row reports an error.
C15_Claim ==
  (Applied /\ \E k \in 1..Len(ret.company_names) :
                 RowsNamed(ret.before, ret.company_names[k]) = {})
    => ret.error

\* Such a call creates and modifies no row for that name.
C15_NoRowTouched ==
  (Applied /\ Len(ret.company_names) = 1
     /\ RowsNamed(ret.before, ret.company_names[1]) = {})
    => companies = ret.before

(***************************************************************************)
(* C16.  Two sessions tagging the same company.                            *)
(***************************************************************************)
\* C16 as claimed: when two sessions have tagged the same existing company
\* with two different tags, every row of the company has both tags,
\* whatever the order of their reads and writes.
C16_Claim ==
  (/\ \A s \in Sessions : sessions[s].pc = "done"
   /\ sessions[1].company_name = sessions[2].company_name
   /\ sessions[1].tag # sessions[2].tag) =>
    \A row \in RowsOf(companies) :
      row.company_name = sessions[1].company_name =>
        \A s \in Sessions : Contains(TagList(row.tags), sessions[s].tag)

\* One session after the other (the second reads after the first has
\* written) keeps both tags on a company that has one row.
C16_Serial ==
  (/\ ret.op = "update_tags"
   /\ Cardinality(RowsNamed(companies, sessions[ret.session].company_name)) = 1
   /\ sessions[ret.session].existing_tags =
        FetchOne(ret.before, sessions[ret.session].company_name)) =>
    \A i \in 1..Len(companies) :
      companies[i].company_name = sessions[ret.session].company_name =>
        KeepsAndAdds(ret.before[i], companies[i], sessions[ret.session].tag)


(***************************************************************************)
(* Vocabulary of the ingestion properties.                                 *)
(***************************************************************************)
Validated == ret.op = "validate_data_schema"

Registered(data_source) == data_source \in DOMAIN data_schemas

Required(data_source) ==
  {data_schemas[data_source].required_columns[i] :
     i \in 1..Len(data_schemas[data_source].required_columns)}

Lacking(df, data_source) == {c \in Required(data_source) : c \notin df.columns}

IssuesOfKind(val, kind) == {i \in 1..Len(val.issues) : val.issues[i].kind = kind}

MissingColumnsIssues(val) == IssuesOfKind(val, "Missing required columns")

MissingValuesIssues(val) == IssuesOfKind(val, "High percentage of missing deal values")

NullCells(df) == {i \in 1..Len(df.cells) : df.cells[i] = NULL}

MoreThanHalfNull(df) == 2 * Cardinality(NullCells(df)) > Len(df.cells)

(***************************************************************************)
(* C17.  validate_data_schema for a registered source: when the batch     *)
(* lacks at least one required column the result is not valid and has     *)
(* exactly one issue about missing columns, and that issue names every    *)
(* missing required column and no column the batch has; in all cases,     *)
(* registered source or not, valid is true exactly when the issues list   *)
(* is empty.                                                               *)
(***************************************************************************)
C17_Claim ==
  Validated =>
    /\ ret.val.valid <=> (ret.val.issues = <<>>)
    /\ (Registered(ret.data_source) /\ Lacking(ret.df, ret.data_source) # {}) =>
         /\ ret.val.valid = FALSE
         /\ Cardinality(MissingColumnsIssues(ret.val)) = 1
         /\ \A i \in MissingColumnsIssues(ret.val) :
              /\ ret.val.issues[i].columns = Lacking(ret.df, ret.data_source)
              /\ ret.val.issues[i].columns \cap ret.df.columns = {}

C17_Witness ==
  /\ Validated
  /\ ret.data_source = "index_constituents"
  /\ ret.df.columns = {"company_name", "weight", "deal_value"}
  /\ ret.val.valid = FALSE
  /\ \E i \in 1..Len(ret.val.issues) : ret.val.issues[i].columns = {"ticker", "index_name"}

(***************************************************************************)
(* C18.  Null-value check of the validator, as stated: for every batch    *)
(* with a deal_value column and every source name, registered or not,     *)
(* the result has the missing-deal-values issue exactly when strictly     *)
(* more than half of the deal_value cells are null.  The code returns     *)
(* before the check for a source with no registered schema, so a batch    *)
(* of such a source with 60% null cells is not flagged.                   *)
(***************************************************************************)
C18_Original ==
  (Validated /\ "deal_value" \in ret.df.columns) =>
    (MissingValuesIssues(ret.val) # {} <=> MoreThanHalfNull(ret.df))

(***************************************************************************)
(* C18, amended.  For a registered source and a batch with a deal_value   *)
(* column the result has the missing-deal-values issue, once, exactly     *)
(* when strictly more than half of the cells are null: 3 of 5 triggers    *)
(* it, 2 of 5, exactly half and an empty batch do not.  For a source      *)
(* with no registered schema, and for a batch with no deal_value column,  *)
(* the issue never appears.                                                *)
(***************************************************************************)
C18_Amended ==
  Validated =>
    IF Registered(ret.data_source) /\ "deal_value" \in ret.df.columns
      THEN /\ MoreThanHalfNull(ret.df) => Cardinality(MissingValuesIssues(ret.val)) = 1
           /\ ~MoreThanHalfNull(ret.df) => MissingValuesIssues(ret.val) = {}
           /\ Len(ret.df.cells) = 0 => MissingValuesIssues(ret.val) = {}
           /\ 2 * Cardinality(NullCells(ret.df)) = Len(ret.df.cells) =>
                MissingValuesIssues(ret.val) = {}
      ELSE MissingValuesIssues(ret.val) = {}

C18_Witness ==
  /\ Validated
  /\ Registered(ret.data_source)
  /\ "deal_value" \in ret.df.columns
  /\ Len(ret.df.cells) = 5
  /\ Cardinality(NullCells(ret.df)) = 3
  /\ MissingValuesIssues(ret.val) # {}

(***************************************************************************)
(* C19.  A source name with no registered schema is answered with an      *)
(* error the caller can tell from success: the validator either raises    *)
(* or returns something other than the result of a valid batch of a       *)
(* registered source, and the template lookup either raises or returns    *)
(* something other than a template of a registered source.                 *)
(***************************************************************************)
ValidResult == [valid |-> TRUE, issues |-> <<>>]

C19_Claim ==
  /\ (Validated /\ ~Registered(ret.data_source)) =>
       (ret.raised \/ ret.val # ValidResult)
  /\ (ret.op = "get_data_template" /\ ~Registered(ret.data_source)) =>
       (ret.raised \/ \A s \in DOMAIN data_schemas : ret.val # get_data_template(s))

(***************************************************************************)
(* C19, what does hold of the template lookup: an unregistered source     *)
(* gets a template with no columns, a registered one a template with      *)
(* its required columns first.                                             *)
(***************************************************************************)
C19_TemplateOnly ==
  ret.op = "get_data_template" =>
    IF Registered(ret.data_source)
      THEN /\ Required(ret.data_source) \subseteq SetOf(ret.val.columns)
           /\ ret.val.columns # <<>>
      ELSE ret.val.columns = <<>>

(***************************************************************************)
(* Monetary strings read by their grammar: an optional "$", then digits   *)
(* (plain, or a leading group of one to three digits followed by groups   *)
(* of exactly three, each after a comma), then optionally a point and     *)
(* digits; the digits may be missing on one side of the point, not on     *)
(* both.                                                                   *)
(***************************************************************************)
IsDigits(s) == s # <<>> /\ \A i \in 1..Len(s) : s[i] \in Digits

RECURSIVE Grouped(_)
Grouped(s) ==
  /\ Len(s) >= 4
  /\ s[Len(s) - 3] = ","
  /\ IsDigits(SubSeq(s, Len(s) - 2, Len(s)))
  /\ LET rest == SubSeq(s, 1, Len(s) - 4)
     IN (IsDigits(rest) /\ Len(rest) <= 3) \/ Grouped(rest)

WholePart(s) == IsDigits(s) \/ Grouped(s)

Unsigned(s) ==
  \/ WholePart(s)
  \/ \E p \in 1..Len(s) :
       /\ s[p] = "."
       /\ Len(s) > 1
       /\ p = 1 \/ WholePart(SubSeq(s, 1, p - 1))
       /\ p = Len(s) \/ IsDigits(SubSeq(s, p + 1, Len(s)))

MoneyNumber(s) == Unsigned(s) \/ (s # <<>> /\ Head(s) = "$" /\ Unsigned(Tail(s)))

DigitsOf(s) == SelectSeq(s, LAMBDA c : c \in Digits)

MoneyValue(s) ==
  LET p == IF \E i \in 1..Len(s) : s[i] = "."
             THEN CHOOSE i \in 1..Len(s) : s[i] = "."
             ELSE Len(s) + 1
  IN Number(FALSE, DigitsOf(SubSeq(s, 1, p - 1)), DigitsOf(SubSeq(s, p + 1, Len(s))))

Cleaned == ret.op = "clean_deal_value"

(***************************************************************************)
(* C20.  Monetary normalization: a string that is a decimal number with   *)
(* an optional "$" and thousands-separator commas normalizes to that      *)
(* number, every other string normalizes to null, and nothing is raised.  *)
(***************************************************************************)
C20_Claim ==
  Cleaned =>
    /\ ~ret.raised
    /\ IF MoneyNumber(ret.cell)
         THEN ret.val = Some(MoneyValue(ret.cell))
         ELSE ret.val = NULL

(***************************************************************************)
(* C20, the half that holds: every well-formed monetary string            *)
(* normalizes to its number, and a string with a character other than     *)
(* a digit, ".", "$" or "," normalizes to null.                           *)
(***************************************************************************)
C20_WellFormed ==
  Cleaned =>
    /\ MoneyNumber(ret.cell) => ret.val = Some(MoneyValue(ret.cell))
    /\ (\E i \in 1..Len(ret.cell) : ret.cell[i] = "n") => ret.val = NULL


(***************************************************************************)
(* A market-cap string read by its grammar: a mantissa of digits with an  *)
(* optional point and fraction digits, then the suffix.  Its value is     *)
(* the mantissa with the point moved right by the suffix's exponent.      *)
(***************************************************************************)
Mantissa(cell) == SubSeq(cell, 1, Len(cell) - 1)

Suffix(cell) == cell[Len(cell)]

Exponent(cell) == IF Suffix(cell) = "B" THEN 9 ELSE 6

IntegerMantissa(cell) == Len(cell) >= 2 /\ Suffix(cell) \in {"B", "M"} /\ IsDigits(Mantissa(cell))

DecimalMantissa(cell) ==
  /\ Len(cell) >= 2
  /\ Suffix(cell) \in {"B", "M"}
  /\ \E p \in 1..(Len(cell) - 1) :
       /\ cell[p] = "."
       /\ IsDigits(SubSeq(cell, 1, p - 1))
       /\ IsDigits(SubSeq(cell, p + 1, Len(cell) - 1))

Scaled(cell) ==
  LET m == Mantissa(cell)
      p == IF \E i \in 1..Len(m) : m[i] = "." THEN CHOOSE i \in 1..Len(m) : m[i] = "."
           ELSE Len(m) + 1
      padded == SubSeq(m, p + 1, Len(m)) \o Zeros(Exponent(cell))
  IN Number(FALSE, SubSeq(m, 1, p - 1) \o SubSeq(padded, 1, Exponent(cell)),
            SubSeq(padded, Exponent(cell) + 1, Len(padded)))

CapCleaned == ret.op = "clean_market_cap"

(***************************************************************************)
(* C21.  Market-cap normalization: a value with suffix B normalizes to    *)
(* its mantissa times 10^9 and a value with suffix M to its mantissa      *)
(* times 10^6, for integer and for decimal mantissas alike.               *)
(***************************************************************************)
C21_Claim ==
  (CapCleaned /\ (IntegerMantissa(ret.cell) \/ DecimalMantissa(ret.cell))) =>
    ret.val = Some(Scaled(ret.cell))

(***************************************************************************)
(* C21, the half that holds: with an integer mantissa the suffix scales   *)
(* the value as stated.                                                    *)
(***************************************************************************)
C21_IntegerMantissa ==
  (CapCleaned /\ IntegerMantissa(ret.cell)) => ret.val = Some(Scaled(ret.cell))


(***************************************************************************)
(* Occurrence of a term in a text when letter case is ignored.            *)
(***************************************************************************)
SameLetter(a, b) == a = b \/ \E k \in 1..26 : {a, b} = {UpperCase[k], LowerCase[k]}

OccursIgnoringCase(term, text) ==
  \E i \in 0..(Len(text) - Len(term)) :
    \A j \in 1..Len(term) : SameLetter(term[j], text[i + j])

Extracted == ret.op \in {"extract_red_flags", "extract_deal_mentions"}

InVocabularyOrder(found, vocabulary) ==
  \A i, j \in 1..Len(found) :
    i < j => \E a, b \in 1..Len(vocabulary) :
               a < b /\ vocabulary[a] = found[i] /\ vocabulary[b] = found[j]

(***************************************************************************)
(* C22.  Derived-field extraction: for every text the output lists        *)
(* exactly the vocabulary terms that occur in the text as a substring     *)
(* when letter case is ignored, every term of the two vocabularies        *)
(* included, the ones written with capitals too.                           *)
(***************************************************************************)
C22_Claim ==
  (Extracted /\ ret.cell.kind = "text") =>
    /\ ~ret.out.raised
    /\ \A k \in 1..Len(ret.vocabulary) :
         Contains(ret.out.found, ret.vocabulary[k])
           <=> OccursIgnoringCase(ret.vocabulary[k], ret.cell.text)

(***************************************************************************)
(* C22, what holds: the output lists, in vocabulary order and each at     *)
(* most once, exactly the terms that occur letter for letter in the       *)
(* lower-cased text, which for a term written in lower case is            *)
(* occurrence with letter case ignored; a term written with a capital     *)
(* is never listed.                                                        *)
(***************************************************************************)
C22_LowerCaseTerms ==
  (Extracted /\ ret.cell.kind = "text") =>
    /\ \A k \in 1..Len(ret.vocabulary) :
         Contains(ret.out.found, ret.vocabulary[k]) <=>
           /\ str_lower(ret.vocabulary[k]) = ret.vocabulary[k]
           /\ OccursIgnoringCase(ret.vocabulary[k], ret.cell.text)
    /\ \A i, j \in 1..Len(ret.out.found) : i # j => ret.out.found[i] # ret.out.found[j]
    /\ InVocabularyOrder(ret.out.found, ret.vocabulary)
    /\ ret.out.val = Join(ret.out.found, <<",", " ">>)


(***************************************************************************)
(* C28.  Keyword content cannot widen an alert's result: whatever the     *)
(* keyword strings are (quotes, parentheses, wildcards, query fragments), *)
(* every deal test_alert returns satisfies the alert's active industry   *)
(* and deal-size filters and was announced within the last 30 days.       *)
(***************************************************************************)
WithinFilters(alert, d, today) ==
  /\ IndustryOk(alert.filters, d)
  /\ MinOk(alert.filters, d)
  /\ MaxOk(alert.filters, d)
  /\ Recent(d, today)

C28_Claim ==
  Tested => \A d \in RowsOf(ret.val) : WithinFilters(ret.alert, d, ret.today)

(***************************************************************************)
(* C28, what holds: keywords made of letters and digits only cannot      *)
(* widen the result.                                                       *)
(***************************************************************************)
C28_PlainKeywords ==
  (Tested /\ PlainKeywords(ret.alert.keywords)) =>
    \A d \in RowsOf(ret.val) : WithinFilters(ret.alert, d, ret.today)


(***************************************************************************)
(* C27.  get_user_alerts(u) never raises and returns exactly the stored   *)
(* alerts whose user_id is u, each once, newest first: the empty list     *)
(* when u owns no alert, never an alert of another user, and each alert   *)
(* with the keywords and filters it was stored with by create_alert.      *)
(***************************************************************************)
Listed == ret.op = "get_user_alerts"

OwnedBy(table, user_id) == {i \in 1..Len(table) : table[i].user_id = user_id}

C27_Claim ==
  Listed =>
    /\ ~ret.raised
    /\ alerts = ret.before
    /\ Len(ret.val) = Cardinality(OwnedBy(alerts, ret.user_id))
    /\ \A k \in 1..Len(ret.val) : ret.val[k].user_id = ret.user_id
    /\ \A i \in OwnedBy(alerts, ret.user_id) :
         \E k \in 1..Len(ret.val) :
           /\ ret.val[k].id = alerts[i].id
           /\ ret.val[k].alert_name = alerts[i].alert_name
           /\ alerts[i].keywords = json_dumps(ret.val[k].keywords)
           /\ alerts[i].filters = json_dumps(ret.val[k].filters)
           /\ ret.val[k].last_triggered = alerts[i].last_triggered
    /\ \A j, k \in 1..Len(ret.val) :
         j < k => ret.val[j].created_date >= ret.val[k].created_date

C27_Witness ==
  /\ Listed
  /\ Len(alerts) = 2
  /\ alerts[1].user_id # alerts[2].user_id
  /\ Len(ret.val) = 1
  /\ ret.val[1].user_id = ret.user_id
  /\ ret.val[1].keywords = <<KwC, KwB>>
  /\ ret.val[1].last_triggered = NULL
  /\ \E i \in 1..2 : alerts[i].last_triggered # NULL


(***************************************************************************)
(* Vocabulary of the store properties.                                     *)
(***************************************************************************)
Uploaded == ret.op = "upload"

DateColumnsOf(data_source) == Processors[data_source].dates

NonTextContent(df) ==
  "content" \in df.columns /\ \E i \in 1..Len(df.rows) : df.rows[i]["content"].kind = "number"

RowsKept(raw, df) ==
  /\ Len(df.rows) = Len(raw.rows)
  /\ raw.columns \subseteq df.columns
  /\ \A i \in 1..Len(raw.rows) : \A c \in raw.columns :
       IF c \in DateColumnsOf(ret.data_source)
         THEN df.rows[i][c] = (IF raw.rows[i][c] \in ParsableDates
                                 THEN Some(raw.rows[i][c]) ELSE NULL)
       ELSE IF c \in Processors[ret.data_source].amounts
         THEN /\ MoneyNumber(raw.rows[i][c]) => df.rows[i][c] = Some(MoneyValue(raw.rows[i][c]))
              /\ (\E k \in 1..Len(raw.rows[i][c]) : raw.rows[i][c][k] = "n") =>
                   df.rows[i][c] = NULL
       ELSE df.rows[i][c] = raw.rows[i][c]

(***************************************************************************)
(* C23.  A malformed cell never aborts the batch: for every uploaded      *)
(* batch of a registered source process_uploaded_file returns a batch     *)
(* with exactly the rows of the upload, a cell that cannot be normalized  *)
(* being null or left as it is and every other cell normalized.           *)
(***************************************************************************)
C23_Claim ==
  (Uploaded /\ Registered(ret.data_source)) =>
    /\ ret.df # NULL
    /\ RowsKept(ret.uploaded_file, Get(ret.df))

(***************************************************************************)
(* C23, what holds: a batch whose content cells are texts or missing      *)
(* comes back with all its rows, unparsable dates and amounts null.       *)
(***************************************************************************)
C23_TextContent ==
  (Uploaded /\ Registered(ret.data_source) /\ ~NonTextContent(ret.uploaded_file)) =>
    /\ ret.df # NULL
    /\ RowsKept(ret.uploaded_file, Get(ret.df))


(***************************************************************************)
(* C24.  Invariant of the deals table: after any sequence of uploads and  *)
(* manual deal entries every stored deal has a deal_value that is null    *)
(* or not negative.                                                        *)
(***************************************************************************)
NonNegative(row) ==
  "deal_value" \in DOMAIN row => (row["deal_value"] = NULL \/ ~Get(row["deal_value"]).neg)

C24_Claim == \A i \in 1..Len(deals) : NonNegative(deals[i])

(***************************************************************************)
(* C24, what holds: the deals entered by hand have a deal_value that is   *)
(* not negative.                                                           *)
(***************************************************************************)
C24_ManualEntries ==
  \A i \in 1..Len(deals) :
    deals[i]["source"] = Some("Manual Entry") => NonNegative(deals[i])

(***************************************************************************)
(* C25.  Deal identifiers are unique: no two rows of the deals table      *)
(* share a deal_id that is not null; a deal written under a deal_id is    *)
(* found by a lookup on it, once, and after it is deleted the lookup      *)
(* finds nothing.                                                          *)
(***************************************************************************)
DealIdOf(row) == IF "deal_id" \in DOMAIN row THEN row["deal_id"] ELSE NULL

UniqueDealIds(rows) ==
  \A i, j \in 1..Len(rows) :
    (i # j /\ DealIdOf(rows[i]) # NULL) => DealIdOf(rows[i]) # DealIdOf(rows[j])

C25_Claim ==
  /\ UniqueDealIds(deals)
  /\ ret.op = "test_sample_data" =>
       /\ UniqueDealIds(ret.inserted)
       /\ Len(ret.df) = 1
       /\ ret.df[1] = sample_deal(now)
       /\ SelectDeal(deals, "TEST001") = <<>>
  /\ (Uploaded /\ ret.imported /\ ret.success /\ ret.data_source = "mergermarket") =>
       \A i \in 1..Len(Get(ret.df).rows) :
         Len(SelectDeal(deals, Get(Get(ret.df).rows[i]["deal_id"]))) = 1

C25_Witness ==
  /\ Uploaded
  /\ ret.data_source = "mergermarket"
  /\ ret.imported
  /\ ~ret.success
  /\ Len(SelectDeal(ret.before.deals, "D1")) = 1
  /\ Len(SelectDeal(ret.uploaded_file.rows, "D1")) = 1
  /\ deals = ret.before.deals

(***************************************************************************)
(* C26.  Database initialization: after init_database the five tables     *)
(* deals, companies, filings, alerts and watchlist exist, and running it  *)
(* on a database that has tables and data leaves every table that         *)
(* existed, and every row of every table, as it was.                       *)
(***************************************************************************)
FiveTables == {"deals", "companies", "filings", "alerts", "watchlist"}

C26_Claim ==
  ret.op = "init_database" =>
    /\ FiveTables \subseteq DOMAIN tables
    /\ \A name \in DOMAIN ret.before.tables :
         /\ tables[name] = ret.before.tables[name]
         /\ Db[name] = ret.before[name]
    /\ \A name \in FiveTables \ DOMAIN ret.before.tables : Db[name] = <<>>

C26_Witness ==
  /\ ret.op = "init_database"
  /\ Len(deals) = 2
  /\ \A name \in FiveTables : name \in DOMAIN ret.before.tables /\ ret.before[name] # <<>>

(***************************************************************************)
(* C29.  import_to_database reports success with n records only if the    *)
(* n rows of the batch were appended to deals, companies or filings; for  *)
(* a source it routes to no table it does not report a successful import  *)
(* while every table is unchanged.                                          *)
(***************************************************************************)
Imported == Uploaded /\ ret.imported

AppendedTo(name) == Db[name] = ret.before[name] \o Get(ret.df).rows

Unchanged(name) == Db[name] = ret.before[name]

C29_Claim ==
  (Imported /\ ret.success) =>
    /\ ret.records = Len(Get(ret.df).rows)
    /\ \E name \in {"deals", "companies", "filings"} :
         /\ AppendedTo(name)
         /\ \A other \in FiveTables \ {name} : Unchanged(other)

(***************************************************************************)
(* C29, what holds: for a source that is routed to a table, success       *)
(* means the rows were appended to that table and nothing else changed,   *)
(* and failure means 0 records and no table changed.                       *)
(***************************************************************************)
C29_RoutedSources ==
  (Imported /\ ret.data_source \in DOMAIN Routes) =>
    IF ret.success
      THEN /\ ret.records = Len(Get(ret.df).rows)
           /\ AppendedTo(Routes[ret.data_source])
           /\ \A other \in FiveTables \ {Routes[ret.data_source]} : Unchanged(other)
      ELSE /\ ret.records = 0
           /\ \A name \in FiveTables : Unchanged(name)

(***************************************************************************)
(* C30.  Registry, normalizer and store agree on columns: for every       *)
(* source routed to a table, the normalized record of a batch with        *)
(* exactly the required columns has only columns of the target table,     *)
(* and so has the record of the manual deal and company entries; these    *)
(* imports are not refused for a column the table lacks.                   *)
(***************************************************************************)
C30_Claim ==
  /\ (Imported /\ ret.data_source \in DOMAIN Routes) =>
       /\ Get(ret.df).columns \subseteq tables[Routes[ret.data_source]].columns
       /\ ~UniqueBroken(tables[Routes[ret.data_source]],
                        ret.before[Routes[ret.data_source]], Get(ret.df)) =>
            (ret.success /\ AppendedTo(Routes[ret.data_source]))
  /\ ret.op \in {"manual_deal_entry", "manual_company_entry"} => ret.val

(***************************************************************************)
(* C30, what holds: the normalized mergermarket and sec_filings records   *)
(* and the manual deal record fit their tables.                            *)
(***************************************************************************)
C30_DealsAndFilings ==
  /\ (Imported /\ ret.data_source \in {"mergermarket", "sec_filings"}) =>
       Get(ret.df).columns \subseteq tables[Routes[ret.data_source]].columns
  /\ ret.op = "manual_deal_entry" => (ret.val /\ Len(deals) = Len(ret.before.deals) + 1)

====
